---- MODULE Spec2Model ----
(***************************************************************************)
(* Model of the SIIGO tool layer of agente-maf (src/siigo_tools.py): the   *)
(* remote CRUD client _call_siigo, the ledger validator, the field         *)
(* projection, the response size governor and the fetch-all paginator of   *)
(* _execute_siigo_tool.                                                    *)
(*                                                                         *)
(* JSON values are tagged records so that values of different Python types *)
(* can live in one collection:                                             *)
(*   null, bool, num (amounts are integers, in hundredths where they are   *)
(*   money), str, dict (a function from key strings), list (a sequence).   *)
(***************************************************************************)
EXTENDS Integers, Sequences, FiniteSets, TLC

VARIABLES
    pc,            \* "idle", "call", "paging" or "done"
    op,            \* the function under execution: "none", "_execute_siigo_tool", ...
    inp,           \* its arguments
    store,         \* how the audit store behaves during the execution
    endpoint, operacion, method, params, campos,       \* locals of _execute_siigo_tool
    paginar_todo,
    page, page_size, iter, all_results, wrapped_mode,  \* locals of its pagination loop
    requests,      \* the HTTP requests issued during the execution, in order
    audit,         \* the audit events attempted during the execution, in order
    returned,      \* the value the last call of _call_siigo returned (data, page_data)
    result,        \* the value returned, or the exception raised
    agent,         \* main.agent is not None
    threads,       \* main.threads: thread_id -> the conversation's thread handle
    _siigo_threads,\* siigo_agent._siigo_threads: key -> the sub-agent's thread handle
    handles,       \* the number of thread handles created so far (get_new_thread)
    conversaciones,\* the thread_ids of the rows of table conversaciones
    mensajes,      \* the rows of table mensajes, in insertion order
    turn,          \* each chat request in flight: its position and its locals
    current_thread_id, \* runtime_context.current_thread_id in each request's context
    siigo_runs,    \* the runs of the sub-agent so far: conversation, key and handle
    last_delete,   \* the last DELETE /threads/{id}: what it found and what it answered
    db_op          \* the function of db.py under execution, and the connections out

vars == <<pc, op, inp, store, endpoint, operacion, method, params, campos,
          paginar_todo, page, page_size, iter, all_results, wrapped_mode,
          requests, audit, returned, result,
          agent, threads, _siigo_threads, handles, conversaciones, mensajes, turn,
          current_thread_id, siigo_runs, last_delete, db_op>>

\* the state of the HTTP service (main.py, agent.py, siigo_agent.py, db.py)
service == <<agent, threads, _siigo_threads, handles, conversaciones, mensajes, turn,
             current_thread_id, siigo_runs, last_delete, db_op>>

\* the state of the tool layer (siigo_tools.py), but for the store
tool == <<pc, op, inp, endpoint, operacion, method, params, campos,
          paginar_todo, page, page_size, iter, all_results, wrapped_mode,
          requests, audit, returned, result>>

locals == <<endpoint, operacion, method, params, campos, paginar_todo,
            page, page_size, iter, all_results, wrapped_mode>>

-----------------------------------------------------------------------------
(* JSON values *)

Null == [t |-> "null"]
Bool(b) == [t |-> "bool", b |-> b]
Num(n) == [t |-> "num", n |-> n]
Str(s) == [t |-> "str", s |-> s]
\* a Python float of integral value n (100.0)
Flt(n) == [t |-> "float", n |-> n]
Dict(f) == [t |-> "dict", d |-> f]
List(q) == [t |-> "list", l |-> q]

EmptyDict == Dict(<<>>)

IsDict(v) == v.t = "dict"
IsList(v) == v.t = "list"
IsNum(v) == v.t = "num"
IsStr(v) == v.t = "str"

\* key in v, for a dict v
Has(v, k) == IsDict(v) /\ k \in DOMAIN v.d

\* v.get(k, default), for a dict v
Get(v, k, default) == IF k \in DOMAIN v.d THEN v.d[k] ELSE default

\* Python truthiness of a JSON value
Truthy(v) ==
    CASE v.t = "null" -> FALSE
      [] v.t = "bool" -> v.b
      [] v.t = "num"  -> v.n # 0
      [] v.t = "str"  -> v.s # ""
      [] v.t = "dict" -> DOMAIN v.d # {}
      [] v.t = "list" -> Len(v.l) # 0
      [] OTHER        -> TRUE

\* an exception leaving a function
Raise(e) == [t |-> "raise", exc |-> e]
IsRaise(v) == v.t = "raise"

\* dict(d) with key k removed / set
Without(f, k) == [x \in (DOMAIN f) \ {k} |-> f[x]]
With(f, k, v) == [x \in (DOMAIN f) \cup {k} |-> IF x = k THEN v ELSE f[x]]

-----------------------------------------------------------------------------
(* json.dumps(data, ensure_ascii=False, indent=2): the length of the text. *)

RECURSIVE Digits(_)
Digits(n) == IF n < 0 THEN 1 + Digits(0 - n)
             ELSE IF n < 10 THEN 1 ELSE 1 + Digits(n \div 10)

\* f"Mostrando {k} de {total} registros" and its long variant
NotaShort == "Mostrando  de  registros"
NotaLong == "Mostrando 1 de  registros (use _campos para reducir tamano o page_size mas pequeno)"
Nota(k, total) == [t |-> "nota", k |-> k, total |-> total, long |-> FALSE]
NotaUno(total) == [t |-> "nota", k |-> 1, total |-> total, long |-> TRUE]

\* len(str(v)) for the values formatted into the note
StrLen(v) ==
    CASE v.t = "num"  -> Digits(v.n)
      [] v.t = "str"  -> Len(v.s)
      [] v.t = "null" -> 4
      [] OTHER        -> 2

RECURSIVE DumpsLen(_, _), DumpsItems(_, _), DumpsMembers(_, _)

\* the items of a non-empty list, each on its own line at depth lvl
DumpsItems(q, lvl) ==
    IF q = <<>> THEN 0
    ELSE 1 + 2 * lvl + DumpsLen(Head(q), lvl)
         + (IF Len(q) > 1 THEN 1 ELSE 0) + DumpsItems(Tail(q), lvl)

\* the members of a non-empty dict, each on its own line at depth lvl
DumpsMembers(f, lvl) ==
    IF DOMAIN f = {} THEN 0
    ELSE LET k == CHOOSE x \in DOMAIN f : TRUE
         IN  1 + 2 * lvl + (Len(k) + 4) + DumpsLen(f[k], lvl)
             + (IF Cardinality(DOMAIN f) > 1 THEN 1 ELSE 0)
             + DumpsMembers(Without(f, k), lvl)

DumpsLen(v, lvl) ==
    CASE v.t = "null" -> 4
      [] v.t = "bool" -> IF v.b THEN 4 ELSE 5
      [] v.t = "num"  -> Digits(v.n)
      [] v.t = "float" -> Digits(v.n) + 2
      [] v.t = "str"  -> Len(v.s) + 2
      [] v.t = "nota" -> 2 + StrLen(v.total) +
                         (IF v.long THEN Len(NotaLong)
                          ELSE Len(NotaShort) + Digits(v.k))
      [] v.t = "list" -> IF v.l = <<>> THEN 2
                         ELSE 1 + DumpsItems(v.l, lvl + 1) + 1 + 2 * lvl + 1
      [] v.t = "dict" -> IF DOMAIN v.d = {} THEN 2
                         ELSE 1 + DumpsMembers(v.d, lvl + 1) + 1 + 2 * lvl + 1

\* len(json.dumps(data, ensure_ascii=False, indent=2))
JsonLen(v) == DumpsLen(v, 0)

-----------------------------------------------------------------------------
(* _to_response_str *)

max_chars_default == 15000

TruncationMarker == "... (respuesta truncada)"
\* the marker is "\n" followed by TruncationMarker
MarkerLen == 1 + Len(TruncationMarker)

\* len(s[:n]) for a text of length len
SliceLen(len, n) ==
    IF n >= 0 THEN (IF len < n THEN len ELSE n)
    ELSE (IF len + n > 0 THEN len + n ELSE 0)

\* A text: the serialization of a JSON value, whole or cut at `cut` chars and
\* followed by the truncation marker.
Text(v) == [t |-> "text", of |-> v, truncated |-> FALSE, cut |-> 0]
Truncated(v, n) == [t |-> "text", of |-> v, truncated |-> TRUE, cut |-> n]
IsText(x) == x.t = "text"

TextLen(x) ==
    IF x.truncated THEN SliceLen(JsonLen(x.of), x.cut) + MarkerLen
    ELSE JsonLen(x.of)

\* the dict serialized by the reduction loop
TestEnvelope(pagination, results, nota) ==
    Dict([pagination |-> pagination, results |-> List(results), _nota |-> nota])

\* results[:-1]
DropLast(q) == SubSeq(q, 1, Len(q) - 1)

RECURSIVE ReduceResults(_, _, _, _)
\* the `while len(results) > 1` loop: the text returned from inside the loop,
\* or the results left when the loop ends
ReduceResults(results, pagination, total, max_chars) ==
    IF Len(results) > 1
    THEN LET test == TestEnvelope(pagination, results, Nota(Len(results), total))
         IN  IF JsonLen(test) <= max_chars
             THEN [returned |-> TRUE, text |-> Text(test), results |-> results]
             ELSE ReduceResults(DropLast(results), pagination, total, max_chars)
    ELSE [returned |-> FALSE, text |-> Text(Null), results |-> results]

\* a text that is never cut
HardTruncate_whole(v, max_chars) == Text(v)
\* the final `if len(response_str) > max_chars` of _to_response_str
HardTruncate(v, max_chars) ==
    IF JsonLen(v) > max_chars THEN Truncated(v, max_chars) ELSE Text(v)

_to_response_str(data, max_chars) ==
    IF JsonLen(data) > max_chars
    THEN IF Has(data, "results") /\ IsList(data.d["results"])
         THEN LET results == data.d["results"].l
                  pagination == Get(data, "pagination", EmptyDict)
              IN  IF ~IsDict(pagination)
                  THEN Raise("AttributeError")
                  ELSE LET total == Get(pagination, "total_results", Num(Len(results)))
                           red == ReduceResults(results, pagination, total, max_chars)
                       IN  IF red.returned THEN red.text
                           ELSE HardTruncate(
                                  TestEnvelope(pagination, red.results, NotaUno(total)),
                                  max_chars)
         ELSE HardTruncate(data, max_chars)
    ELSE Text(data)

-----------------------------------------------------------------------------
(* Operation router *)

\* a comparison of names as they were spelled
Lower_as_spelled(s) == s
\* operacion.lower(), on the operation names of the model
Lower(s) ==
    CASE s = "CREAR"  -> "crear"
      [] s = "Crear"  -> "crear"
      [] s = "EDITAR" -> "editar"
      [] s = "Editar" -> "editar"
      [] s = "Debit"  -> "debit"
      [] s = "Credit" -> "credit"
      [] s = "DEBIT"  -> "debit"
      [] OTHER        -> s

\* op.startswith("crear"), on the lower-case operation names of the model
StartsWithCrear(s) == s \in {"crear", "crear_lote"}

_detect_method(oper) ==
    LET o == Lower(oper)
    IN  IF StartsWithCrear(o) \/ o \in {"enviar_mail"} THEN "POST"
        ELSE IF o \in {"editar"} THEN "PUT"
        ELSE IF o \in {"eliminar", "anular"} THEN "DELETE"
        ELSE "GET"

OPERATION_ALIASES ==
    [e \in {"facturas_venta", "facturas_compra", "cuentas_por_pagar"} |->
        CASE e = "facturas_venta"    -> [tipos_factura_venta |-> "tipos_factura"]
          [] e = "facturas_compra"   -> [tipos_factura_compra |-> "tipos_facturas"]
          [] e = "cuentas_por_pagar" -> [consultar_por_proveedor |-> "por_proveedor",
                                         consultar_por_fecha |-> "por_fecha"]]

_normalize_operation(ep, oper) ==
    LET aliases == IF ep \in DOMAIN OPERATION_ALIASES THEN OPERATION_ALIASES[ep] ELSE <<>>
    IN  IF oper \in DOMAIN aliases THEN aliases[oper] ELSE oper

\* The parameters string of a tool call: blank ("", "{}", "null", "none"),
\* text that json.loads rejects, or the text of the JSON value v.
BlankJson == [k |-> "blank"]
InvalidJson == [k |-> "invalid"]
JsonText(v) == [k |-> "json", v |-> v]

_parse_parametros(parametros_json) ==
    CASE parametros_json.k = "blank"   -> EmptyDict
      [] parametros_json.k = "invalid" -> Dict([_parse_error |-> Str("parametros_json_invalido")])
      [] OTHER                         -> parametros_json.v

date_based == {"facturas_venta", "facturas_compra", "comprobantes_contables"}
created_based == {"clientes", "productos", "notas_credito", "cotizaciones",
                  "recibos_caja", "recibos_pago"}

\* no key is copied
Mirror_nothing(f, src, dst) == f
\* normalized[dst] = normalized[src] when src is present and dst is not
Mirror(f, src, dst) ==
    IF src \in DOMAIN f /\ dst \notin DOMAIN f THEN With(f, dst, f[src]) ELSE f

_normalize_list_filters(ep, oper, p) ==
    IF oper # "listar" \/ ~IsDict(p) THEN p
    ELSE LET n0 == p.d
             n1 == IF ep \in date_based
                   THEN Mirror(Mirror(n0, "created_start", "date_start"),
                               "created_end", "date_end")
                   ELSE n0
             n2 == IF ep \in created_based
                   THEN Mirror(Mirror(n1, "date_start", "created_start"),
                               "date_end", "created_end")
                   ELSE n1
         IN  Dict(n2)

-----------------------------------------------------------------------------
(* _validate_comprobante_payload.  Item values are amounts in hundredths. *)

\* a comparison without tolerance
Epsilon_none == 1 - 1
\* the 0.01 of `abs(debit_total - credit_total) > 0.01`, in hundredths
Epsilon == 1

Abs(n) == IF n < 0 THEN 0 - n ELSE n

\* float(value): the number, or the TypeError / ValueError the validator catches
NumericStrings == [s \in {"100", "200"} |-> IF s = "100" THEN 100 ELSE 200]
Float(v) ==
    CASE v.t = "num"  -> [ok |-> TRUE, n |-> v.n]
      [] v.t = "bool" -> [ok |-> TRUE, n |-> IF v.b THEN 1 ELSE 0]
      [] v.t = "str"  -> IF v.s \in DOMAIN NumericStrings
                         THEN [ok |-> TRUE, n |-> NumericStrings[v.s]]
                         ELSE [ok |-> FALSE, n |-> 0]
      [] OTHER        -> [ok |-> FALSE, n |-> 0]

\* str(account.get("movement", "")).strip().lower()
MovementLc(account) ==
    LET m == Get(account, "movement", Str(""))
    IN  IF IsStr(m) THEN Lower(m.s) ELSE "None"

Defect(idx, what) == Str("items[" \o ToString(idx) \o "]" \o what)

\* one pass of `for idx, item in enumerate(items, start=1)`
ValidateItem(st, idx, item) ==
    IF ~IsDict(item)
    THEN [st EXCEPT !.invalid_items = Append(@, Defect(idx, " no es objeto"))]
    ELSE LET account == Get(item, "account", Null)
             movement == IF IsDict(account) THEN MovementLc(account) ELSE ""
             inv1 == IF IsDict(account)
                     THEN IF ~Truthy(Get(account, "code", Null))
                          THEN Append(st.invalid_items, Defect(idx, ".account.code faltante"))
                          ELSE st.invalid_items
                     ELSE Append(st.invalid_items, Defect(idx, ".account faltante"))
             value_num == Float(Get(item, "value", Null))
         IN  IF ~value_num.ok
             THEN [st EXCEPT !.invalid_items = Append(inv1, Defect(idx, ".value invalido"))]
             ELSE IF value_num.n <= 0
             THEN [st EXCEPT !.invalid_items =
                      Append(inv1, Defect(idx, ".value debe ser mayor a 0"))]
             ELSE IF movement = "debit"
             THEN [st EXCEPT !.invalid_items = inv1, !.debit_total = @ + value_num.n]
             ELSE IF movement = "credit"
             THEN [st EXCEPT !.invalid_items = inv1, !.credit_total = @ + value_num.n]
             ELSE [st EXCEPT !.invalid_items =
                      Append(inv1, Defect(idx, ".account.movement invalido (usar Debit/Credit)"))]

RECURSIVE ValidateItems(_, _, _)
ValidateItems(st, idx, items) ==
    IF idx > Len(items) THEN st
    ELSE ValidateItems(ValidateItem(st, idx, items[idx]), idx + 1, items)

\* None, the value returned for a valid payload
None == Null

_validate_comprobante_payload(payload) ==
    IF ~IsDict(payload)
    THEN Dict([error |-> Str("Payload invalido para crear comprobante contable"),
               detalle |-> Str("Debe enviar un objeto JSON con document, date e items."),
               status_code |-> Num(400)])
    ELSE LET document == Get(payload, "document", Null)
             items == Get(payload, "items", Null)
             m1 == IF ~IsDict(document) \/ ~Truthy(Get(document, "id", Null))
                   THEN <<Str("document.id")>> ELSE <<>>
             m2 == IF ~Truthy(Get(payload, "date", Null)) THEN <<Str("date")>> ELSE <<>>
             m3 == IF ~IsList(items) \/ ~Truthy(items) THEN <<Str("items[]")>> ELSE <<>>
             missing_fields == m1 \o m2 \o m3
         IN  IF missing_fields # <<>>
             THEN Dict([error |-> Str("Faltan campos obligatorios para crear comprobante contable"),
                        faltantes |-> List(missing_fields),
                        status_code |-> Num(400),
                        sugerencia |-> List(<<
                          Str("Consultar tipos_comprobante con tipo=CC para obtener document.id."),
                          Str("Consultar cuentas_contables para validar account.code."),
                          Str("Asegurar items con account.movement (Debit/Credit) y value.")>>)])
             ELSE LET st == ValidateItems([debit_total |-> 0, credit_total |-> 0,
                                           invalid_items |-> <<>>], 1, items.l)
                  IN  IF st.invalid_items # <<>>
                      THEN Dict([error |-> Str("Items invalidos en comprobante contable"),
                                 detalle |-> List(st.invalid_items),
                                 status_code |-> Num(400)])
                      ELSE IF Abs(st.debit_total - st.credit_total) > Epsilon
                      THEN Dict([error |-> Str("Partida doble invalida: Debitos y Creditos no cuadran"),
                                 totales |-> Dict([debit |-> Num(st.debit_total),
                                                   credit |-> Num(st.credit_total)]),
                                 status_code |-> Num(400),
                                 sugerencia |-> Str("Ajusta items hasta que total Debit == total Credit.")])
                      ELSE None

-----------------------------------------------------------------------------
(* _filter_response_fields *)

\* dotted_path.split("."), on the dotted field names of the model; a field
\* name has a "." exactly when it is in the domain
DottedPaths ==
    ("metadata.created" :> <<"metadata", "created">>) @@
    ("payment.value" :> <<"payment", "value">>) @@
    ("metadata.missing" :> <<"metadata", "missing">>)

\* an extraction that reports None as a found value
NotFound_present == [value |-> Null, found |-> TRUE]
\* `return None, False`
NotFound == [value |-> Null, found |-> FALSE]
Found(v) == [value |-> v, found |-> TRUE]

RECURSIVE WalkPath(_, _)
WalkPath(value, parts) ==
    IF parts = <<>> THEN Found(value)
    ELSE IF IsDict(value) /\ Head(parts) \in DOMAIN value.d
         THEN WalkPath(value.d[Head(parts)], Tail(parts))
         ELSE NotFound

_extract_nested_value(record, dotted_path) ==
    WalkPath(record, DottedPaths[dotted_path])

\* isinstance(v, (int, float)); a Python bool is an int
IsNumber(v) == v.t \in {"num", "float", "bool"}
NumVal(v) == IF v.t = "bool" THEN (IF v.b THEN 1 ELSE 0) ELSE v.n

RECURSIVE SumNumericValues(_)
\* sum of item.get("value") over the dict items whose value is numeric, with
\* the number of such items
SumNumericValues(items) ==
    IF items = <<>> THEN [sum |-> 0, count |-> 0]
    ELSE LET rest == SumNumericValues(Tail(items))
             item == Head(items)
         IN  IF IsDict(item) /\ IsNumber(Get(item, "value", Null))
             THEN [sum |-> NumVal(Get(item, "value", Null)) + rest.sum,
                   count |-> 1 + rest.count]
             ELSE rest

\* a monetary alias that looks at payment.value before total
MonetaryAlias_payment_first(record) ==
    LET total == Get(record, "total", Null)
        payment == Get(record, "payment", Null)
        payment_value == IF IsDict(payment) THEN Get(payment, "value", Null) ELSE Null
    IN  IF IsDict(payment) /\ IsNumber(payment_value) THEN Found(payment_value)
        ELSE IF IsNumber(total) THEN Found(total)
        ELSE NotFound
\* step 4 of _extract_field_with_aliases
MonetaryAlias(record) ==
    LET total == Get(record, "total", Null)
        payment == Get(record, "payment", Null)
        payment_value == IF IsDict(payment) THEN Get(payment, "value", Null) ELSE Null
        items == Get(record, "items", Null)
        numeric_values == IF IsList(items) THEN SumNumericValues(items.l)
                          ELSE [sum |-> 0, count |-> 0]
    IN  IF IsNumber(total) THEN Found(total)
        ELSE IF IsDict(payment) /\ IsNumber(payment_value) THEN Found(payment_value)
        ELSE IF numeric_values.count > 0 THEN Found(Flt(numeric_values.sum))
        ELSE NotFound

\* field is the name of the requested field, record a dict
_extract_field_with_aliases(record, field) ==
    IF field \in DOMAIN record.d THEN Found(record.d[field])
    ELSE IF field \in DOMAIN DottedPaths THEN _extract_nested_value(record, field)
    ELSE LET metadata == Get(record, "metadata", Null)
             created == IF IsDict(metadata) THEN Get(metadata, "created", Null) ELSE Null
             updated == IF IsDict(metadata) THEN Get(metadata, "last_updated", Null) ELSE Null
         IN  IF field = "created_at" /\ IsDict(metadata) /\ created # Null
             THEN Found(created)
             ELSE IF field \in {"updated_at", "last_updated"} /\ IsDict(metadata)
                     /\ updated # Null
             THEN Found(updated)
             ELSE IF field \in {"value", "total"} THEN MonetaryAlias(record)
             ELSE NotFound

RECURSIVE FilterFields(_, _, _)
\* the `for field in campos` loop of filter_record, from the i-th field on;
\* a field that is not a string makes `"." in field` raise TypeError
FilterFields(record, fields, filtered) ==
    IF fields = <<>> THEN Dict(filtered)
    ELSE IF ~IsStr(Head(fields)) THEN Raise("TypeError")
    ELSE LET r == _extract_field_with_aliases(record, Head(fields).s)
         IN  FilterFields(record, Tail(fields),
                          IF r.found THEN With(filtered, Head(fields).s, r.value)
                          ELSE filtered)

filter_record(record, fields) ==
    IF ~IsDict(record) THEN record
    ELSE FilterFields(record, fields, <<>>)

\* [filter_record(r) for r in rs]; the first exception leaves the comprehension
FilterAll(rs, fields) ==
    LET out == [i \in 1..Len(rs) |-> filter_record(rs[i], fields)]
    IN  IF \E i \in 1..Len(rs) : IsRaise(out[i])
        THEN Raise("TypeError") ELSE List(out)

\* a dict holding a list or a raise in place of the list
PutOrRaise(f, k, v) == IF IsRaise(v) THEN v ELSE Dict(With(f, k, v))

\* data.get("results", []) iterated by the comprehension; a value that is not
\* a list of records is outside the model
ResultsOf(v) == IF IsList(v) THEN v.l ELSE <<>>

_filter_response_fields(data, fields) ==
    IF IsDict(data)
    THEN IF "data" \in DOMAIN data.d
         THEN LET data_payload == data.d["data"]
              IN  IF Has(data_payload, "results")
                  THEN LET nested == IF "pagination" \in DOMAIN data_payload.d
                                     THEN [pagination |-> data_payload.d["pagination"]]
                                     ELSE <<>>
                           rs == FilterAll(ResultsOf(data_payload.d["results"]), fields)
                       IN  IF IsRaise(rs) THEN rs
                           ELSE Dict(With(data.d, "data", Dict(With(nested, "results", rs))))
                  ELSE IF IsList(data_payload)
                  THEN PutOrRaise(data.d, "data", FilterAll(data_payload.l, fields))
                  ELSE IF IsDict(data_payload)
                  THEN PutOrRaise(data.d, "data", filter_record(data_payload, fields))
                  ELSE data
         ELSE IF "results" \in DOMAIN data.d
         THEN LET filtered == IF "pagination" \in DOMAIN data.d
                              THEN [pagination |-> data.d["pagination"]]
                              ELSE <<>>
              IN  PutOrRaise(filtered, "results",
                             FilterAll(ResultsOf(data.d["results"]), fields))
         ELSE filter_record(data, fields)
    ELSE IF IsList(data) THEN FilterAll(data.l, fields)
    ELSE data

-----------------------------------------------------------------------------
(* _call_siigo and its audit events *)

\* What the HTTP attempt does: the request raises requests.exceptions.Timeout,
\* requests.exceptions.ConnectionError or another exception, or the backend
\* answers with a status and a body.  The body text is empty, blank, not JSON
\* ("html") or the text of the JSON value `json`.
HttpResponse(status, text, json) ==
    [k |-> "http", status |-> status, text |-> text, json |-> json]
RequestRaises(e) == [k |-> "raises", exc |-> e]

\* resp.ok
Ok(resp) == resp.status < 400

\* How the audit store behaves during the call: not initialised (is_ready()
\* false), the insert succeeds, or the insert raises.
DbStates == {"not_ready", "ok", "fail"}

\* the arguments of _safe_log_tool_event that depend on the outcome
Event(ep, oper, response_status, success, error_text) ==
    [tool_name |-> "siigo_" \o ep, endpoint |-> ep, operation |-> oper,
     response_status |-> response_status, success |-> success,
     error_text |-> error_text]

\* a logger without its try/except: a failing insert raises to the caller
_safe_log_tool_event_unguarded(event, db) ==
    [exc |-> IF db = "fail" THEN "Exception" ELSE "none",
     attempt |-> [event |-> event,
                  outcome |-> CASE db = "not_ready" -> "skipped"
                                [] db = "ok"        -> "written"
                                [] OTHER            -> "failed"]]
\* one call of _safe_log_tool_event: what became of the event, and the
\* exception that leaves the function ("none": it never raises)
_safe_log_tool_event(event, db) ==
    [exc |-> "none",
     attempt |-> [event |-> event,
                  outcome |-> CASE db = "not_ready" -> "skipped"
                                [] db = "ok"        -> "written"
                                [] OTHER            -> "failed"]]

HttpMethods == {"GET", "POST", "PUT", "DELETE"}

\* the query string of the request: operacion, overridden by query_params
RequestParams(oper, query_params) ==
    [x \in (DOMAIN query_params.d) \cup {"operacion"} |->
        IF x \in DOMAIN query_params.d THEN query_params.d[x] ELSE Str(oper)]

Request(ep, oper, meth, query_params, body) ==
    [method |-> meth, endpoint |-> ep, operacion |-> oper,
     params |-> RequestParams(oper, query_params),
     json |-> IF meth \in {"POST", "PUT"} THEN body ELSE Null]

\* data = resp.json(), or the raw text when the body is not JSON
ParseBody(resp) ==
    IF resp.text = "json" THEN resp.json
    ELSE Dict([raw_response |-> Str(IF resp.text = "html" THEN "<html>"
                                    ELSE IF resp.text = "blank" THEN " " ELSE ""),
               status_code |-> Num(resp.status)])

\* `if (resp.text or "").strip() == ""`
FlagEmptyBody(resp, data) ==
    IF resp.text \in {"empty", "blank"}
    THEN IF resp.status >= 400
         THEN Dict([error |-> Str("HTTP " \o ToString(resp.status)
                                  \o " desde Azure Function (respuesta vacia)"),
                    status_code |-> Num(resp.status)])
         ELSE Dict([error |-> Str("Azure Function respondio vacio"),
                    status_code |-> Num(resp.status)])
    ELSE data

\* a listing that accepts {} as it came
FlagEmptyListar_accepting(ep, oper, meth, resp, data) == data
\* the reclassification of {} under `operacion == "listar"`
FlagEmptyListar(ep, oper, meth, resp, data) ==
    IF meth = "GET" /\ oper = "listar" /\ IsDict(data) /\ ~Truthy(data) /\ Ok(resp)
    THEN Dict([error |-> Str("Azure Function devolvio objeto vacio en operacion listar"),
               status_code |-> Num(resp.status),
               endpoint |-> Str(ep),
               operacion |-> Str(oper),
               sugerencia |-> Str("Revisar backend SIIGO/credenciales o intentar consulta puntual por ID/codigo.")])
    ELSE data

\* success = resp.ok and not (isinstance(data, dict) and "error" in data)
Success(resp, data) == Ok(resp) /\ ~Has(data, "error")

\* except clauses for Timeout and ConnectionError only
ExceptClause_narrow(e) ==
    CASE e = "Timeout"         -> Dict([error |-> Str("Timeout: La solicitud tardo demasiado")])
      [] e = "ConnectionError" -> Dict([error |-> Str("Error de conexion con el servidor de SIIGO")])
      [] OTHER                 -> Null
\* the error dict of the except clause that catches exception e of the try
\* body, or Null when no clause catches it
ExceptClause(e) ==
    CASE e = "Timeout"         -> Dict([error |-> Str("Timeout: La solicitud tardo demasiado")])
      [] e = "ConnectionError" -> Dict([error |-> Str("Error de conexion con el servidor de SIIGO")])
      [] OTHER                 -> Dict([error |-> Str("Error inesperado: " \o e)])

\* the body of the try statement: the value it returns or the exception it
\* raises, with the request it issued and the audit events it attempted
TryBody(ep, oper, meth, query_params, body, resp, db) ==
    IF meth \notin HttpMethods
    THEN LET err == Dict([error |-> Str("Metodo HTTP no soportado: " \o meth)])
             lg == _safe_log_tool_event(Event(ep, oper, Null, FALSE, err.d["error"]), db)
         IN  [exc |-> lg.exc, data |-> err, requests |-> <<>>, audit |-> <<lg.attempt>>]
    ELSE LET req == <<Request(ep, oper, meth, query_params, body)>>
         IN  IF resp.k = "raises"
             THEN [exc |-> resp.exc, data |-> Null, requests |-> req, audit |-> <<>>]
             ELSE LET data == FlagEmptyListar(ep, oper, meth, resp,
                                  FlagEmptyBody(resp, ParseBody(resp)))
                      lg == _safe_log_tool_event(
                                Event(ep, oper, Num(resp.status), Success(resp, data),
                                      IF IsDict(data) THEN Get(data, "error", Null) ELSE Null),
                                db)
                  IN  [exc |-> lg.exc, data |-> data, requests |-> req,
                       audit |-> <<lg.attempt>>]

\* _call_siigo: the value returned (or the exception that escapes), the
\* requests issued and the audit events attempted
_call_siigo(ep, oper, meth, query_params, body, resp, db) ==
    LET try == TryBody(ep, oper, meth, query_params, body, resp, db)
    IN  IF try.exc = "none"
        THEN [data |-> try.data, requests |-> try.requests, audit |-> try.audit]
        ELSE LET err == ExceptClause(try.exc)
             IN  IF err = Null
                 THEN [data |-> Raise(try.exc), requests |-> try.requests,
                       audit |-> try.audit]
                 ELSE LET lg == _safe_log_tool_event(
                                    Event(ep, oper, Null, FALSE, err.d["error"]), db)
                      IN  [data |-> IF lg.exc = "none" THEN err ELSE Raise(lg.exc),
                           requests |-> try.requests,
                           audit |-> try.audit \o <<lg.attempt>>]

-----------------------------------------------------------------------------
(* _execute_siigo_tool *)

max_pages == 20
DefaultPageSize == 25

\* `key in params` for params that json.loads returned: membership of a key
\* in a dict, of an element in a list; a TypeError for a number
Contains(p, k) ==
    CASE p.t = "dict" -> k \in DOMAIN p.d
      [] p.t = "list" -> \E i \in 1..Len(p.l) : p.l[i] = Str(k)
      [] OTHER        -> FALSE

\* [c.strip() for c in campos_raw.split(",")], on the strings of the model
SplitCommas(s) ==
    CASE s = "id,name"   -> <<Str("id"), Str("name")>>
      [] s = "id, total" -> <<Str("id"), Str("total")>>
      [] OTHER           -> <<Str(s)>>

\* int(v): the integer, or the ValueError / TypeError it raises
IntOf(v) ==
    CASE v.t = "num"   -> [ok |-> TRUE, n |-> v.n]
      [] v.t = "float" -> [ok |-> TRUE, n |-> v.n]
      [] v.t = "bool"  -> [ok |-> TRUE, n |-> IF v.b THEN 1 ELSE 0]
      [] v.t = "str"   -> IF v.s \in {"1", "2", "3", "25"}
                          THEN [ok |-> TRUE,
                                n |-> CASE v.s = "1" -> 1 [] v.s = "2" -> 2
                                        [] v.s = "3" -> 3 [] OTHER -> 25]
                          ELSE [ok |-> FALSE, n |-> 0]
      [] OTHER         -> [ok |-> FALSE, n |-> 0]

ParseErrorResponse ==
    Dict([error |-> Str("El JSON de parametros es invalido"),
          detalle |-> Str("Asegurate de enviar un objeto JSON valido en formato string."),
          status_code |-> Num(400)])

UnsupportedEditResponse ==
    Dict([error |-> Str("Operacion no soportada por backend"),
          detalle |-> Str("notas_credito solo permite operaciones GET y POST; no existe editar."),
          status_code |-> Num(405),
          sugerencia |-> Str("Crea una nueva nota credito o realiza ajustes desde Siigo Web.")])

\* the campos taken from params["_campos"]: a list, or None
CamposOf(p) ==
    IF "_campos" \in DOMAIN p.d
    THEN LET campos_raw == p.d["_campos"]
         IN  IF IsList(campos_raw) THEN campos_raw
             ELSE IF IsStr(campos_raw) THEN List(SplitCommas(campos_raw.s))
             ELSE None
    ELSE None

\* the validator keyed on another resource name
ValidatorApplies_misnamed(ep, oper) == ep = "comprobantes" /\ oper = "crear"
\* whether the ledger validator is run on the call
ValidatorApplies(ep, oper) == ep = "comprobantes_contables" /\ oper = "crear"

\* whether the edit of a credit note is rejected locally
EditRejected(ep, oper) == ep = "notas_credito" /\ oper = "editar"

\* Lines 541-580: the locals after the special parameters were extracted, and
\* in `early` the value returned (or the exception raised) before any call,
\* None when the execution goes on to the HTTP dispatch.
Prepare(ep, oper_in, parametros_json) ==
    LET oper == _normalize_operation(ep, oper_in)
        meth == _detect_method(oper)
        p0 == _normalize_list_filters(ep, oper, _parse_parametros(parametros_json))
        base == [operacion |-> oper, method |-> meth, params |-> p0, campos |-> None,
                 paginar_todo |-> FALSE, early |-> None]
    IN  IF p0.t \notin {"dict", "list", "str"}
        THEN [base EXCEPT !.early = Raise("TypeError")]
        ELSE IF Contains(p0, "_parse_error")
        THEN [base EXCEPT !.early = _to_response_str(ParseErrorResponse, max_chars_default)]
        ELSE IF ~IsDict(p0)
        THEN [base EXCEPT !.early = Raise(IF IsList(p0) THEN "TypeError" ELSE "AttributeError")]
        ELSE LET cs == CamposOf(p0)
                 p1 == Without(Without(p0.d, "_campos"), "_todos")
                 todo == Truthy(Get(p0, "_todos", Bool(FALSE)))
                 loc == [base EXCEPT !.params = Dict(p1), !.campos = cs,
                                     !.paginar_todo = todo]
             IN  IF EditRejected(ep, oper)
                 THEN [loc EXCEPT !.early =
                          _to_response_str(UnsupportedEditResponse, max_chars_default)]
                 ELSE IF ValidatorApplies(ep, oper)
                         /\ _validate_comprobante_payload(Dict(p1)) # None
                 THEN [loc EXCEPT !.early =
                          _to_response_str(_validate_comprobante_payload(Dict(p1)),
                                           max_chars_default)]
                 ELSE loc

\* the keys a POST/PUT sends in the query string instead of the body
QueryKeys == {"id", "nombre", "identificacion", "codigo", "nombre_factura"}

QueryOf(meth, p) ==
    IF meth \in {"POST", "PUT"}
    THEN Dict([k \in (DOMAIN p.d) \cap QueryKeys |-> p.d[k]])
    ELSE p

BodyOf(meth, p) ==
    IF meth \in {"POST", "PUT"}
    THEN Dict([k \in (DOMAIN p.d) \ QueryKeys |-> p.d[k]])
    ELSE Null

\* Lines 645-649: the field filter and the serialization of the result
Finish(data, cs) ==
    IF IsRaise(data) THEN data
    ELSE IF Truthy(cs) /\ ~IsStr(data)
    THEN LET filtered == _filter_response_fields(data, cs.l)
         IN  IF IsRaise(filtered) THEN filtered
             ELSE _to_response_str(filtered, max_chars_default)
    ELSE _to_response_str(data, max_chars_default)

\* (results, pagination, wrapped_mode) of a page, results None for a page
\* that has neither shape
_extract_results_payload(raw_page) ==
    IF IsDict(raw_page) /\ "results" \in DOMAIN raw_page.d
    THEN [results |-> raw_page.d["results"],
          pagination |-> Get(raw_page, "pagination", EmptyDict),
          wrapped |-> FALSE]
    ELSE IF IsDict(raw_page) /\ Has(Get(raw_page, "data", Null), "results")
    THEN [results |-> raw_page.d["data"].d["results"],
          pagination |-> Get(raw_page.d["data"], "pagination", EmptyDict),
          wrapped |-> TRUE]
    ELSE [results |-> None, pagination |-> None, wrapped |-> FALSE]

\* the loop without its check of the page's error key
PageFailed_unchecked(page_data) == FALSE
\* `if isinstance(page_data, dict) and "error" in page_data`
PageFailed(page_data) == Has(page_data, "error")

\* a loop that runs one iteration more
LoopExhausted_late(it) == it = max_pages + 1
\* the `for _ in range(max_pages)` loop ends after its it-th iteration
LoopExhausted(it) == it = max_pages

\* a break condition without the short-page rule
LastPage_total_only(total, accumulated, count, size) ==
    Truthy(total) /\ accumulated >= NumVal(total)
\* the break condition of the pagination loop
LastPage(total, accumulated, count, size) ==
    (Truthy(total) /\ accumulated >= NumVal(total)) \/ count < size

\* Lines 637-641
Consolidated(results, wrapped) ==
    LET consolidated_payload ==
            Dict([pagination |-> Dict([total_results |-> Num(Len(results)),
                                       page |-> Num(1),
                                       page_size |-> Num(Len(results))]),
                  results |-> List(results)])
    IN  IF wrapped THEN Dict([success |-> Bool(TRUE), data |-> consolidated_payload])
        ELSE consolidated_payload

-----------------------------------------------------------------------------
(* The inputs of the model *)

\* the most items of a ledger payload
MaxItems == 2
\* the pagination loop may receive more than page_size records in a page
\* during its first OverPages iterations
OverPages == 1

Endpoints == {"clientes", "notas_credito", "comprobantes_contables",
              "facturas_venta", "cuentas_por_pagar"}

Operations == {"listar", "consultar_por_id", "crear", "CREAR", "crear_lote",
               "editar", "EDITAR", "eliminar", "anular", "enviar_mail",
               "consultar_por_fecha", "tipos_factura_venta"}

\* ledger items, valid and with each defect the validator reports
DebitAccount == Dict([code |-> Str("110505"), movement |-> Str("Debit")])
CreditAccount == Dict([code |-> Str("233525"), movement |-> Str("Credit")])

ValidItems ==
    {Dict([account |-> a, value |-> Num(v)]) :
        a \in {DebitAccount, CreditAccount}, v \in {100, 101, 102}}
    \cup {Dict([account |-> DebitAccount, value |-> Str("100")])}

InvalidItems ==
    {Str("x"),
     Dict(<<>>),
     Dict([account |-> Str("110505"), value |-> Num(100)]),
     Dict([account |-> Dict([movement |-> Str("Credit")]), value |-> Num(100)]),
     Dict([account |-> Dict([code |-> Str("110505"), movement |-> Str("Haber")]),
           value |-> Num(100)]),
     Dict([account |-> Dict([code |-> Str("110505")]), value |-> Num(0)]),
     Dict([account |-> DebitAccount, value |-> Str("abc")]),
     Dict([account |-> CreditAccount]),
     Dict([account |-> CreditAccount, value |-> Num(-100)])}

Items == ValidItems \cup InvalidItems

ItemLists == UNION {[1..n -> Items] : n \in 0..MaxItems}

\* the parameters of a ledger creation: document, date and items, each
\* possibly missing
LedgerPayloads ==
    {Dict([document |-> Dict([id |-> Num(27441)]), date |-> Str("2024-01-31"),
           items |-> List(q)]) : q \in ItemLists}
    \cup {Dict([date |-> Str("2024-01-31"), items |-> List(q)]) : q \in [1..1 -> Items]}
    \cup {Dict([document |-> Dict(<<>>), items |-> List(q)]) : q \in [1..1 -> Items]}
    \cup {Dict([document |-> Dict([id |-> Num(27441)]), date |-> Str("2024-01-31")])}

\* the parameters of a listing
ListParams ==
    {EmptyDict}
    \cup {Dict([page_size |-> s, _todos |-> Bool(TRUE)]) :
             s \in {Num(1), Str("2"), Num(0), Str("abc")}}
    \cup {Dict([_todos |-> Bool(TRUE), page |-> Str("3"), page_size |-> Num(2)]),
          Dict([_todos |-> Bool(TRUE), page |-> Str("x"), page_size |-> Num(2)]),
          Dict([_todos |-> Bool(TRUE), page_size |-> Num(2),
                _campos |-> List(<<Str("id")>>)]),
          Dict([_todos |-> Bool(FALSE), page_size |-> Num(2),
                _campos |-> Str("id,name")]),
          Dict([date_start |-> Str("2024-01-01"), date_end |-> Str("2024-01-31")])}

\* the date filters of a listing
FilterParams ==
    {Dict([created_start |-> Str("2024-01-01"), created_end |-> Str("2024-01-31")]),
     Dict([date_start |-> Str("2024-01-01"), created_start |-> Str("2023-01-01")]),
     Dict([date_end |-> Str("2024-01-31")])}

ToolInputs ==
    \* ledger creations
    {[endpoint |-> "comprobantes_contables", operacion |-> o, parametros_json |-> JsonText(v)] :
        o \in {"crear"}, v \in LedgerPayloads}
    \* listings
    \cup {[endpoint |-> "clientes", operacion |-> "listar", parametros_json |-> JsonText(v)] :
        v \in ListParams}
    \cup {[endpoint |-> e, operacion |-> o, parametros_json |-> JsonText(v)] :
        e \in date_based, o \in {"listar", "consultar_por_id"}, v \in FilterParams}
    \* every operation on every resource
    \cup {[endpoint |-> e, operacion |-> o, parametros_json |-> j] :
        e \in Endpoints, o \in Operations,
        j \in {BlankJson, InvalidJson, JsonText(List(<<>>)), JsonText(Num(5)),
               JsonText(Dict([id |-> Str("77"), name |-> Str("ACME")]))}}

\* a record of page p
Rec(p, i) == Dict([id |-> Num(100 * p + i), name |-> Str("ACME")])
Recs(p, n) == [i \in 1..n |-> Rec(p, i)]

Envelope(results, pagination, wrapped) ==
    LET e == Dict([results |-> results, pagination |-> pagination])
    IN  IF wrapped THEN Dict([success |-> Bool(TRUE), data |-> e]) ELSE e

\* what the backend may answer to a single request
Responses ==
    {RequestRaises("Timeout"), RequestRaises("ConnectionError"), RequestRaises("SSLError")}
    \cup {HttpResponse(s, x, Null) : s \in {200, 500}, x \in {"empty", "blank", "html"}}
    \cup {HttpResponse(s, "json", v) : s \in {200, 500},
            v \in {EmptyDict, Dict([error |-> Str("boom")]), Dict([message |-> Str("boom")]),
                   List(<<>>), Str("ok"), Rec(1, 1), List(Recs(1, 2)),
                   Envelope(List(Recs(1, 2)), Dict([total_results |-> Num(2)]), FALSE),
                   Envelope(List(Recs(1, 2)), Dict([total_results |-> Num(2)]), TRUE)}}

\* the numbers of records a page of the loop may carry
PageCounts(size, it) ==
    {n \in {0, 1, 10, size} : n <= size /\ n >= 0}
    \cup (IF it < OverPages /\ size >= 0 THEN {size + 1} ELSE {})

\* the pagination metadata of a page: no total, a total already reached, a
\* total not yet reached
Paginations(accumulated) ==
    {EmptyDict, Dict([total_results |-> Num(accumulated)]),
     Dict([total_results |-> Num(accumulated + 1)])}

\* what the backend may answer to the request of page p
PageResponses(p, size, it, accumulated) ==
    {RequestRaises("Timeout"), HttpResponse(200, "empty", Null),
     HttpResponse(200, "json", EmptyDict),
     HttpResponse(500, "json", Dict([error |-> Str("boom")])),
     HttpResponse(500, "json", Dict([message |-> Str("boom")])),
     HttpResponse(200, "json", List(Recs(1, 2)))}
    \cup UNION {{HttpResponse(200, "json", Envelope(List(Recs(p, n)), pg, w)) :
                    pg \in Paginations(accumulated + n), w \in BOOLEAN} :
                 n \in PageCounts(size, it)}

\* the inputs of the direct calls of _call_siigo
CallInputs ==
    {[endpoint |-> e, operacion |-> o, method |-> m, query_params |-> EmptyDict, body |-> Null] :
        e \in {"clientes"}, o \in {"listar", "consultar_por_id"},
        m \in HttpMethods \cup {"PATCH"}}

\* the inputs of siigo_catalogos
CatalogInputs ==
    {[catalogo |-> c, parametros_json |-> j] :
        c \in {"impuestos", "tipos_comprobante"},
        j \in {BlankJson, InvalidJson, JsonText(Dict([tipo |-> Str("FV")])),
               JsonText(List(<<>>))}}

\* the inputs of the direct calls of _to_response_str
MaxRecords == 3
BudgetStep == 20
MaxBudget == 15
Budgets == {b * BudgetStep : b \in 0..MaxBudget} \cup {max_chars_default}

StrPayloads ==
    {Envelope(List(Recs(1, n)), pg, w) :
        n \in 0..MaxRecords, pg \in {EmptyDict, Dict([total_results |-> Num(120)])},
        w \in BOOLEAN}
    \cup {Dict([results |-> List(Recs(1, n))]) : n \in 0..MaxRecords}
    \cup {Dict([error |-> Str("boom")]), List(Recs(1, 2)), Rec(1, 1), EmptyDict,
          Str("ok"), Dict([results |-> Str("none")])}

\* the inputs of the direct calls of _filter_response_fields
MaxFields == 2
Fields == {"id", "total", "value", "created_at", "updated_at", "metadata.created",
           "payment.value", "metadata.missing", "phones"}
FieldLists == UNION {[1..n -> {Str(f) : f \in Fields}] : n \in 0..MaxFields}

Records ==
    {Dict([id |-> Num(1), name |-> Str("ACME")]),
     Dict([id |-> Num(1), total |-> Num(500), created_at |-> Str("2020-02-02"),
           metadata |-> Dict([created |-> Str("2024-01-01")])]),
     Dict([metadata |-> Dict([created |-> Str("2024-01-01")]),
           items |-> List(<<Dict([value |-> Num(50)]), Dict([value |-> Num(50)])>>)]),
     Dict([metadata |-> Dict([last_updated |-> Str("2024-03-03")]),
           payment |-> Dict([value |-> Num(70)]),
           items |-> List(<<Dict([value |-> Num(50)])>>)]),
     Dict([total |-> Str("n/a"), payment |-> Str("cash"),
           items |-> List(<<Str("x"), Dict([value |-> Str("50")])>>)]),
     Dict([metadata |-> Str("none"), value |-> Num(9)]),
     Dict([total |-> Num(500), payment |-> Dict([value |-> Num(70)]),
           items |-> List(<<Dict([value |-> Num(50)])>>)]),
     Dict([metadata |-> Dict([created |-> Null]), total |-> Bool(TRUE)]),
     EmptyDict}

FilterInputs ==
    Records
    \cup {Envelope(List(<<r>>), EmptyDict, w) : r \in Records, w \in BOOLEAN}
    \cup {List(<<Str("x"), Dict([id |-> Num(1), name |-> Str("ACME")])>>), Str("ok")}

-----------------------------------------------------------------------------
(* The HTTP service: the registries of main.py and siigo_agent.py, the context
   variables, and the tables conversaciones and mensajes of db.py. *)

\* the thread ids the clients send, in a fixed order
ThreadOrder == <<"t1", "t2">>
ThreadIds == {ThreadOrder[i] : i \in DOMAIN ThreadOrder}

\* the chat requests that can be in flight together
Turns == {"r1", "r2"}

\* the thread handles the process may create, and the rows mensajes may hold
MaxHandles == 3
MaxMessages == 4

\* an empty dict
NoEntries == [x \in {} |-> 0]

\* the handles a registry holds
Held(registry) == {registry[k] : k \in DOMAIN registry}

\* contextvars.ContextVar("current_thread_id", default="default"), twice:
\* runtime_context.current_thread_id and agent.current_thread_id
ContextDefault == "default"

\* agent.current_thread_id.get() in the context of request r: the module
\* agent defines its own variable and no code sets it
agent_current_thread_id(r) == ContextDefault

\* a request slot with no request in it
NoTurn == [pc |-> "idle", thread_id |-> "", thread |-> 0, status |-> 0]

\* a handler that saves the assistant's reply before the user's message
TurnRows_reply_first(T) ==
    <<[thread_id |-> T, role |-> "assistant"], [thread_id |-> T, role |-> "user"]>>

\* the two rows that one completed turn of conversation T leaves in mensajes
TurnRows(T) ==
    <<[thread_id |-> T, role |-> "user"], [thread_id |-> T, role |-> "assistant"]>>

\* the rows of mensajes that earlier processes left for the conversations S
RECURSIVE StoredRows(_, _)
StoredRows(ids, S) ==
    IF ids = <<>> THEN <<>>
    ELSE (IF Head(ids) \in S THEN TurnRows(Head(ids)) ELSE <<>>)
         \o StoredRows(Tail(ids), S)

\* db.get_messages(thread_id) has rows, so db.build_history_context is not ""
HasHistory(T) == \E i \in DOMAIN mensajes : mensajes[i].thread_id = T

\* no function of db.py executes, and no connection is out of the pool
NoDbOp == [fn |-> "none", pc |-> "idle", out |-> 0, left |-> 0, exc |-> "none"]

\* the process right after startup, with an agent and an empty database
NoService ==
    /\ agent = TRUE
    /\ threads = NoEntries /\ _siigo_threads = NoEntries /\ handles = 0
    /\ conversaciones = {} /\ mensajes = <<>>
    /\ turn = [r \in Turns |-> NoTurn]
    /\ current_thread_id = [r \in Turns |-> ContextDefault]
    /\ siigo_runs = {}
    /\ last_delete = None
    /\ db_op = NoDbOp

-----------------------------------------------------------------------------
(* The state machine: one function executes at a time. *)

NoLocals ==
    /\ endpoint = "" /\ operacion = "" /\ method = "" /\ params = None /\ campos = None
    /\ paginar_todo = FALSE
    /\ page = 0 /\ page_size = 0 /\ iter = 0 /\ all_results = <<>> /\ wrapped_mode = FALSE

Init ==
    /\ pc = "idle" /\ op = "none" /\ inp = None
    /\ store \in DbStates
    /\ NoLocals
    /\ requests = <<>> /\ audit = <<>> /\ returned = None /\ result = None
    /\ NoService

\* db.init_db(), db.close_db() or a failure of the database, between calls
StoreChanges ==
    /\ pc = "idle"
    /\ store' \in DbStates \ {store}
    /\ UNCHANGED <<pc, op, inp, locals, requests, audit, returned, result>>
    /\ UNCHANGED service

\* _execute_siigo_tool up to its first HTTP call
Invoke(i) ==
    /\ pc = "idle"
    /\ \E loc \in {Prepare(i.endpoint, i.operacion, i.parametros_json)} :
       \E paging \in {loc.early = None /\ loc.method = "GET" /\ loc.paginar_todo} :
       \E pg \in {IF paging THEN IntOf(Get(loc.params, "page", Num(1)))
                            ELSE IntOf(Num(1))} :
       \E ps \in {IF paging THEN IntOf(Get(loc.params, "page_size", Num(DefaultPageSize)))
                            ELSE IntOf(Num(DefaultPageSize))} :
           /\ op' = "_execute_siigo_tool" /\ inp' = i
           /\ endpoint' = i.endpoint /\ operacion' = loc.operacion
           /\ method' = loc.method /\ campos' = loc.campos
           /\ paginar_todo' = loc.paginar_todo
           /\ iter' = 0 /\ all_results' = <<>> /\ wrapped_mode' = FALSE
           /\ IF loc.early # None
              THEN /\ result' = loc.early /\ pc' = "done"
                   /\ params' = loc.params /\ page' = 0 /\ page_size' = 0
              ELSE IF paging /\ (~pg.ok \/ ~ps.ok)
              THEN /\ result' = Raise("ValueError") /\ pc' = "done"
                   /\ params' = loc.params /\ page' = 0 /\ page_size' = 0
              ELSE IF paging
              THEN /\ result' = None /\ pc' = "paging"
                   /\ page' = pg.n /\ page_size' = ps.n
                   /\ params' = Dict(With(loc.params.d, "page_size", Str(ToString(ps.n))))
              ELSE /\ result' = None /\ pc' = "call"
                   /\ params' = loc.params /\ page' = 0 /\ page_size' = 0
    /\ UNCHANGED <<store, requests, audit, returned>>
    /\ UNCHANGED service

\* the single HTTP call of _execute_siigo_tool and the rest of the function
SingleCall(resp) ==
    /\ pc = "call"
    /\ \E r \in {_call_siigo(endpoint, operacion, method, QueryOf(method, params),
                             BodyOf(method, params), resp, store)} :
           /\ requests' = requests \o r.requests
           /\ audit' = audit \o r.audit
           /\ returned' = r.data
           /\ result' = Finish(r.data, campos)
    /\ pc' = "done"
    /\ UNCHANGED <<op, inp, store, locals>>
    /\ UNCHANGED service

\* one iteration of the pagination loop and, when it is the last one, the
\* rest of the function
FetchPage(resp) ==
    /\ pc = "paging"
    /\ \E query \in {Dict(With(params.d, "page", Str(ToString(page))))} :
       \E r \in {_call_siigo(endpoint, operacion, method, query, Null, resp, store)} :
       \E page_data \in {r.data} :
       \E ext \in {_extract_results_payload(page_data)} :
           /\ requests' = requests \o r.requests
           /\ audit' = audit \o r.audit
           /\ returned' = page_data
           /\ params' = query
           /\ IF IsRaise(page_data)
              THEN /\ result' = page_data /\ pc' = "done"
                   /\ UNCHANGED <<page, iter, all_results, wrapped_mode>>
              ELSE IF PageFailed(page_data)
              THEN /\ result' = _to_response_str(page_data, max_chars_default)
                   /\ pc' = "done"
                   /\ UNCHANGED <<page, iter, all_results, wrapped_mode>>
              ELSE IF ext.results = None
              THEN /\ result' = Finish(page_data, campos) /\ pc' = "done"
                   /\ UNCHANGED <<page, iter, all_results, wrapped_mode>>
              ELSE IF ~IsList(ext.results) \/ ~IsDict(ext.pagination)
              THEN /\ result' = Raise("TypeError") /\ pc' = "done"
                   /\ UNCHANGED <<page, iter, all_results, wrapped_mode>>
              ELSE \E extended \in {all_results \o ext.results.l} :
                   \E wrapped \in {wrapped_mode \/ ext.wrapped} :
                   /\ all_results' = extended
                   /\ wrapped_mode' = wrapped
                   /\ iter' = iter + 1
                   /\ IF LastPage(Get(ext.pagination, "total_results", Num(0)),
                                  Len(extended), Len(ext.results.l), page_size)
                      THEN /\ page' = page /\ pc' = "done"
                           /\ result' = Finish(Consolidated(extended, wrapped), campos)
                      ELSE IF LoopExhausted(iter + 1)
                      THEN /\ page' = page + 1 /\ pc' = "done"
                           /\ result' = Finish(Consolidated(extended, wrapped), campos)
                      ELSE /\ page' = page + 1 /\ pc' = "paging"
                           /\ result' = None
    /\ UNCHANGED <<op, inp, store, endpoint, operacion, method, campos, paginar_todo,
                   page_size>>
    /\ UNCHANGED service

\* a call of _call_siigo
CallSiigo(i, resp) ==
    /\ pc = "idle"
    /\ \E r \in {_call_siigo(i.endpoint, i.operacion, i.method, i.query_params, i.body,
                             resp, store)} :
           /\ requests' = r.requests /\ audit' = r.audit /\ result' = r.data
           /\ returned' = r.data
    /\ op' = "_call_siigo"
    /\ inp' = [endpoint |-> i.endpoint, operacion |-> i.operacion, method |-> i.method,
               query_params |-> i.query_params, body |-> i.body, resp |-> resp]
    /\ pc' = "done"
    /\ UNCHANGED <<store, locals>>
    /\ UNCHANGED service

\* siigo_catalogos: the parameters are parsed, the catalogue name is added
\* to them and they are sent as the query of one GET
SiigoCatalogos(i, resp) ==
    /\ pc = "idle"
    /\ op' = "siigo_catalogos"
    /\ inp' = [endpoint |-> "catalogos", operacion |-> i.catalogo,
               parametros_json |-> i.parametros_json]
    /\ \E parsed \in {_parse_parametros(i.parametros_json)} :
           IF ~IsDict(parsed)
           THEN /\ result' = Raise("TypeError")
                /\ UNCHANGED <<requests, audit, returned>>
           ELSE \E r \in {_call_siigo("catalogos", i.catalogo, "GET",
                                      Dict(With(parsed.d, "catalogo", Str(i.catalogo))),
                                      Null, resp, store)} :
                   /\ requests' = r.requests /\ audit' = r.audit
                   /\ returned' = r.data
                   /\ result' = _to_response_str(r.data, max_chars_default)
    /\ pc' = "done"
    /\ UNCHANGED <<store, locals>>
    /\ UNCHANGED service

\* a call of _to_response_str
ToResponseStr(data, max_chars) ==
    /\ pc = "idle"
    /\ op' = "_to_response_str"
    /\ inp' = [data |-> data, max_chars |-> max_chars]
    /\ result' = _to_response_str(data, max_chars)
    /\ pc' = "done"
    /\ UNCHANGED <<store, locals, requests, audit, returned>>
    /\ UNCHANGED service

\* a call of _filter_response_fields
FilterResponseFields(data, fields) ==
    /\ pc = "idle"
    /\ op' = "_filter_response_fields"
    /\ inp' = [data |-> data, campos |-> fields]
    /\ result' = _filter_response_fields(data, fields)
    /\ pc' = "done"
    /\ UNCHANGED <<store, locals, requests, audit, returned>>
    /\ UNCHANGED service

\* the function has returned; the next call starts afresh
Return ==
    /\ pc = "done"
    /\ pc' = "idle" /\ op' = "none" /\ inp' = None
    /\ endpoint' = "" /\ operacion' = "" /\ method' = "" /\ params' = None
    /\ campos' = None /\ paginar_todo' = FALSE /\ page' = 0 /\ page_size' = 0 /\ iter' = 0
    /\ all_results' = <<>> /\ wrapped_mode' = FALSE
    /\ requests' = <<>> /\ audit' = <<>> /\ returned' = None /\ result' = None
    /\ UNCHANGED store
    /\ UNCHANGED service

Next ==
    \/ StoreChanges
    \/ pc = "idle" /\ \E i \in ToolInputs : Invoke(i)
    \/ pc = "call" /\ \E resp \in Responses : SingleCall(resp)
    \/ pc = "paging" /\ \E resp \in PageResponses(page, page_size, iter, Len(all_results)) :
                            FetchPage(resp)
    \/ pc = "idle" /\ \E i \in CallInputs, resp \in Responses : CallSiigo(i, resp)
    \/ pc = "idle" /\ \E i \in CatalogInputs, resp \in Responses : SiigoCatalogos(i, resp)
    \/ pc = "idle" /\ \E data \in StrPayloads, max_chars \in Budgets :
                          ToResponseStr(data, max_chars)
    \/ pc = "idle" /\ \E data \in FilterInputs, fields \in FieldLists :
                          FilterResponseFields(data, fields)
    \/ Return

Spec == Init /\ [][Next]_vars

-----------------------------------------------------------------------------
(* The HTTP service as a state machine. The handlers are coroutines of one
   event loop: each action is the code a request runs between two awaits. *)

\* the process after startup: the agent was created or not, the pool was
\* opened or not, and the database holds what earlier processes left
ServiceInit ==
    /\ pc = "idle" /\ op = "none" /\ inp = None
    /\ store \in DbStates
    /\ NoLocals
    /\ requests = <<>> /\ audit = <<>> /\ returned = None /\ result = None
    /\ agent \in BOOLEAN
    /\ threads = NoEntries /\ _siigo_threads = NoEntries /\ handles = 0
    /\ conversaciones \in SUBSET ThreadIds
    /\ mensajes = StoredRows(ThreadOrder, conversaciones)
    /\ turn = [r \in Turns |-> NoTurn]
    /\ current_thread_id = [r \in Turns |-> ContextDefault]
    /\ siigo_runs = {}
    /\ last_delete = None
    /\ db_op = NoDbOp

\* POST /chat for thread_id T, up to its first await: the replay of the
\* history on a new handle, or else the run of the agent on the message
Chat(r, T) ==
    /\ turn[r].pc = "idle"
    /\ IF ~agent
       THEN /\ turn' = [turn EXCEPT ![r] = [pc |-> "done", thread_id |-> T,
                                            thread |-> 0, status |-> 503]]
            /\ UNCHANGED <<threads, handles, current_thread_id>>
       ELSE IF T \notin DOMAIN threads
       THEN /\ handles < MaxHandles
            /\ handles' = handles + 1
            /\ threads' = With(threads, T, handles + 1)
            /\ IF store = "ok" /\ T \in conversaciones /\ HasHistory(T)
               THEN /\ turn' = [turn EXCEPT ![r] = [pc |-> "rehydrate", thread_id |-> T,
                                                    thread |-> handles + 1, status |-> 0]]
                    /\ UNCHANGED current_thread_id
               ELSE /\ turn' = [turn EXCEPT ![r] = [pc |-> "run", thread_id |-> T,
                                                    thread |-> handles + 1, status |-> 0]]
                    /\ current_thread_id' = [current_thread_id EXCEPT ![r] = T]
       ELSE /\ turn' = [turn EXCEPT ![r] = [pc |-> "run", thread_id |-> T,
                                            thread |-> threads[T], status |-> 0]]
            /\ current_thread_id' = [current_thread_id EXCEPT ![r] = T]
            /\ UNCHANGED <<threads, handles>>
    /\ UNCHANGED <<tool, db_op, store, agent, _siigo_threads, conversaciones, mensajes,
                   siigo_runs, last_delete>>

\* the replay of the history has ended, or raised into the inner except; the
\* handler looks its handle up again and starts the run of the agent
Rehydrated(r) ==
    /\ turn[r].pc = "rehydrate"
    /\ IF turn[r].thread_id \in DOMAIN threads
       THEN /\ turn' = [turn EXCEPT ![r].pc = "run",
                                    ![r].thread = threads[turn[r].thread_id]]
            /\ current_thread_id' = [current_thread_id EXCEPT ![r] = turn[r].thread_id]
       ELSE /\ turn' = [turn EXCEPT ![r].pc = "done", ![r].status = 500]
            /\ UNCHANGED current_thread_id
    /\ UNCHANGED <<tool, db_op, store, agent, threads, _siigo_threads, handles, conversaciones,
                   mensajes, siigo_runs, last_delete>>

\* the agent, running the turn of request r, calls its tool consultar_siigo_erp,
\* which runs the sub-agent on the handle run_siigo_agent finds or creates
ConsultarSiigoErp(r) ==
    /\ turn[r].pc = "run"
    /\ \E tid \in {agent_current_thread_id(r)} :
          /\ IF tid \notin DOMAIN _siigo_threads
             THEN /\ handles < MaxHandles
                  /\ handles' = handles + 1
                  /\ _siigo_threads' = With(_siigo_threads, tid, handles + 1)
             ELSE UNCHANGED <<handles, _siigo_threads>>
          /\ siigo_runs' = siigo_runs \cup {[thread_id |-> turn[r].thread_id, key |-> tid,
                                             handle |-> _siigo_threads'[tid]]}
    /\ UNCHANGED <<tool, db_op, store, agent, threads, conversaciones, mensajes, turn,
                   current_thread_id, last_delete>>

\* the run of the agent has ended: the handler saves the two messages when
\* the store is ready (a failure is printed, not raised) and answers
ChatCompletes(r) ==
    /\ turn[r].pc = "run"
    /\ IF store = "ok"
       THEN /\ Len(mensajes) + 2 <= MaxMessages
            /\ conversaciones' = conversaciones \cup {turn[r].thread_id}
            /\ mensajes' = mensajes \o TurnRows(turn[r].thread_id)
       ELSE UNCHANGED <<conversaciones, mensajes>>
    /\ turn' = [turn EXCEPT ![r].pc = "done", ![r].status = 200]
    /\ UNCHANGED <<tool, db_op, store, agent, threads, _siigo_threads, handles,
                   current_thread_id, siigo_runs, last_delete>>

\* the same, when the database fails between the two calls of save_message:
\* the first has committed the conversation and the user's message, the
\* second raises into the except
ChatHalfSaved(r) ==
    /\ turn[r].pc = "run"
    /\ store = "ok"
    /\ Len(mensajes) + 1 <= MaxMessages
    /\ conversaciones' = conversaciones \cup {turn[r].thread_id}
    /\ mensajes' = Append(mensajes, TurnRows(turn[r].thread_id)[1])
    /\ store' = "fail"
    /\ turn' = [turn EXCEPT ![r].pc = "done", ![r].status = 200]
    /\ UNCHANGED <<tool, db_op, agent, threads, _siigo_threads, handles,
                   current_thread_id, siigo_runs, last_delete>>

\* the run of the agent raises: the outer except answers 500
ChatFails(r) ==
    /\ turn[r].pc = "run"
    /\ turn' = [turn EXCEPT ![r].pc = "done", ![r].status = 500]
    /\ UNCHANGED <<tool, db_op, store, agent, threads, _siigo_threads, handles, conversaciones,
                   mensajes, current_thread_id, siigo_runs, last_delete>>

\* the answer is sent; the slot, with a fresh context, serves the next request
ChatReturns(r) ==
    /\ turn[r].pc = "done"
    /\ turn' = [turn EXCEPT ![r] = NoTurn]
    /\ current_thread_id' = [current_thread_id EXCEPT ![r] = ContextDefault]
    /\ UNCHANGED <<tool, db_op, store, agent, threads, _siigo_threads, handles, conversaciones,
                   mensajes, siigo_runs, last_delete>>

\* db.delete_conversation(T): the conversation and, by ON DELETE CASCADE, its
\* messages; what is left in the tables
RowsWithout(rows, T) == SelectSeq(rows, LAMBDA m : m.thread_id # T)

\* what DELETE /threads/{T} answers in the present state: 200 when the handle
\* was in main.threads or db.delete_conversation deleted a row, 404 otherwise;
\* without a pool, or when the query raises, deleted_db stays False
DeleteStatus(T) ==
    IF T \in DOMAIN threads \/ (store = "ok" /\ T \in conversaciones) THEN 200 ELSE 404

\* DELETE /threads/{T}: the handler has no await
DeleteThread(T) ==
    /\ threads' = Without(threads, T)
    /\ _siigo_threads' = Without(_siigo_threads, T)
    /\ IF store = "ok"
       THEN /\ conversaciones' = conversaciones \ {T}
            /\ mensajes' = RowsWithout(mensajes, T)
       ELSE UNCHANGED <<conversaciones, mensajes>>
    /\ last_delete' = [thread_id |-> T, status |-> DeleteStatus(T)]
    /\ UNCHANGED <<tool, db_op, store, agent, handles, turn, current_thread_id, siigo_runs>>

ServiceNext ==
    \/ StoreChanges
    \/ \E r \in Turns, T \in ThreadIds : Chat(r, T)
    \/ \E r \in Turns : Rehydrated(r)
    \/ \E r \in Turns : ConsultarSiigoErp(r)
    \/ \E r \in Turns : ChatCompletes(r)
    \/ \E r \in Turns : ChatFails(r)
    \/ \E r \in Turns : ChatReturns(r)
    \/ \E T \in ThreadIds : DeleteThread(T)

ServiceSpec == ServiceInit /\ [][ServiceNext]_vars

\* The persistence of the turns: the service without the sub-agent and
\* without deletions, and with every outcome of the two inserts that end a turn
PersistNext ==
    \/ StoreChanges
    \/ \E r \in Turns, T \in ThreadIds : Chat(r, T)
    \/ \E r \in Turns : Rehydrated(r)
    \/ \E r \in Turns : ChatCompletes(r)
    \/ \E r \in Turns : ChatHalfSaved(r)
    \/ \E r \in Turns : ChatFails(r)
    \/ \E r \in Turns : ChatReturns(r)

PersistSpec == ServiceInit /\ [][PersistNext]_vars

-----------------------------------------------------------------------------
(* The connection pool: one function of db.py at a time, statement by
   statement. The functions are synchronous, so nothing else runs meanwhile. *)

\* the functions of db.py that take a connection; the logging ones return at
\* once when there is no pool, the others let _get_conn raise
DbFunctions ==
    {"create_conversation", "conversation_exists", "update_last_activity",
     "delete_conversation", "save_message", "get_messages", "get_message_count",
     "log_tool_event", "log_agent_run"}
ReturnsWithoutPool == {"log_tool_event", "log_agent_run"}

\* the statements the function executes on its cursor, and whether it commits
Statements(fn) == IF fn = "save_message" THEN 2 ELSE 1
Commits(fn) == fn \notin {"conversation_exists", "get_messages", "get_message_count"}

\* DB_POOL_MAX: getconn raises PoolError when that many connections are out
MaxConn == 2

\* a function that gives the connection back only when the try block ended
\* without an exception
Finally_on_success(exc) == exc = "none"

\* try: ... finally: _put_conn(conn) -- the clause runs on every exit
Finally(exc) == TRUE

\* _get_conn(): the exception it raises, or "none" and one connection more
\* out; reachable says whether the server hands a connection over
_get_conn(out, reachable) ==
    CASE store = "not_ready" -> [exc |-> "RuntimeError", out |-> out]
      [] out >= MaxConn      -> [exc |-> "PoolError", out |-> out]
      [] ~reachable          -> [exc |-> "OperationalError", out |-> out]
      [] OTHER               -> [exc |-> "none", out |-> out + 1]

\* _put_conn(conn): the connections out afterwards
_put_conn(out) == IF store # "not_ready" THEN out - 1 ELSE out

\* a function of db.py is called and runs up to its try block
DbCall(fn, reachable) ==
    /\ db_op.pc = "idle"
    /\ IF store = "not_ready" /\ fn \in ReturnsWithoutPool
       THEN db_op' = [db_op EXCEPT !.fn = fn, !.pc = "returned", !.exc = "none"]
       ELSE \E got \in {_get_conn(db_op.out, reachable)} :
               db_op' = [fn |-> fn,
                         pc |-> IF got.exc = "none" THEN "try" ELSE "returned",
                         out |-> got.out,
                         left |-> IF got.exc = "none" THEN Statements(fn) ELSE 0,
                         exc |-> got.exc]
    /\ UNCHANGED <<tool, store, agent, threads, _siigo_threads, handles, conversaciones,
                   mensajes, turn, current_thread_id, siigo_runs, last_delete>>

\* cur.execute(...): it succeeds, or a failing database makes it raise
DbExecute(raises) ==
    /\ db_op.pc = "try"
    /\ raises => store = "fail"
    /\ db_op' = IF raises
                THEN [db_op EXCEPT !.pc = "finally", !.exc = "DatabaseError"]
                ELSE [db_op EXCEPT !.left = @ - 1,
                                   !.pc = IF db_op.left > 1 THEN "try"
                                          ELSE IF Commits(db_op.fn) THEN "commit"
                                          ELSE "finally"]
    /\ UNCHANGED <<tool, store, agent, threads, _siigo_threads, handles, conversaciones,
                   mensajes, turn, current_thread_id, siigo_runs, last_delete>>

\* conn.commit(): it succeeds, or a failing database makes it raise
DbCommit(raises) ==
    /\ db_op.pc = "commit"
    /\ raises => store = "fail"
    /\ db_op' = [db_op EXCEPT !.pc = "finally",
                              !.exc = IF raises THEN "DatabaseError" ELSE "none"]
    /\ UNCHANGED <<tool, store, agent, threads, _siigo_threads, handles, conversaciones,
                   mensajes, turn, current_thread_id, siigo_runs, last_delete>>

\* the function leaves its try block, by return or by exception
DbFinally ==
    /\ db_op.pc = "finally"
    /\ db_op' = [db_op EXCEPT !.pc = "returned",
                              !.out = IF Finally(db_op.exc) THEN _put_conn(@) ELSE @]
    /\ UNCHANGED <<tool, store, agent, threads, _siigo_threads, handles, conversaciones,
                   mensajes, turn, current_thread_id, siigo_runs, last_delete>>

\* the caller has the result or the exception; the next function may be called
DbReturn ==
    /\ db_op.pc = "returned"
    /\ db_op' = [NoDbOp EXCEPT !.out = db_op.out]
    /\ UNCHANGED <<tool, store, agent, threads, _siigo_threads, handles, conversaciones,
                   mensajes, turn, current_thread_id, siigo_runs, last_delete>>

\* between two functions the pool is opened or closed, or the database fails
PoolNext ==
    \/ db_op.pc = "idle" /\ db_op.out = 0 /\ StoreChanges
    \/ \E fn \in DbFunctions, reachable \in BOOLEAN : DbCall(fn, reachable)
    \/ \E raises \in BOOLEAN : DbExecute(raises)
    \/ \E raises \in BOOLEAN : DbCommit(raises)
    \/ DbFinally
    \/ DbReturn

PoolSpec == ServiceInit /\ [][PoolNext]_vars

-----------------------------------------------------------------------------
(* Properties of the ledger validation *)

\* the execution is a comprobantes_contables 'crear' with a JSON object
IsLedgerCreate ==
    /\ op = "_execute_siigo_tool"
    /\ inp.endpoint = "comprobantes_contables" /\ inp.operacion = "crear"
    /\ inp.parametros_json.k = "json" /\ IsDict(inp.parametros_json.v)

Payload == inp.parametros_json.v

\* an item with an account code, a Debit or Credit movement and a positive value
WellFormedItem(item) ==
    /\ IsDict(item) /\ Has(item, "account") /\ Has(item, "value")
    /\ Has(item.d["account"], "code") /\ Has(item.d["account"], "movement")
    /\ IsStr(item.d["account"].d["code"]) /\ item.d["account"].d["code"].s # ""
    /\ item.d["account"].d["movement"] \in {Str("Debit"), Str("Credit")}
    /\ IsNum(item.d["value"]) /\ item.d["value"].n > 0

\* document.id, date and a non-empty list of well-formed items
StructurallyValid(p) ==
    /\ Has(p, "document") /\ Has(p.d["document"], "id") /\ Truthy(p.d["document"].d["id"])
    /\ Has(p, "date") /\ Truthy(p.d["date"])
    /\ Has(p, "items") /\ IsList(p.d["items"]) /\ p.d["items"].l # <<>>
    /\ \A i \in 1..Len(p.d["items"].l) : WellFormedItem(p.d["items"].l[i])

RECURSIVE MovementTotal(_, _)
\* the sum of the values of the well-formed items with movement m
MovementTotal(items, m) ==
    IF items = <<>> THEN 0
    ELSE (IF Head(items).d["account"].d["movement"] = Str(m)
          THEN Head(items).d["value"].n ELSE 0)
         + MovementTotal(Tail(items), m)

DebitOf(p) == MovementTotal(p.d["items"].l, "Debit")
CreditOf(p) == MovementTotal(p.d["items"].l, "Credit")

\* C1: a 'crear' on comprobantes_contables whose payload is structurally valid
\* but whose debit and credit totals differ by more than 0.01 (1 hundredth)
\* returns the validator's error, which reports both totals, and issues no
\* request to the backend.
C1_UnbalancedRejected ==
    (IsLedgerCreate /\ StructurallyValid(Payload)
        /\ Abs(DebitOf(Payload) - CreditOf(Payload)) > 1)
    => /\ pc = "done"
       /\ requests = <<>>
       /\ IsText(result) /\ ~result.truncated
       /\ Has(result.of, "error") /\ Has(result.of, "totales")
       /\ result.of.d["totales"] = Dict([debit |-> Num(DebitOf(Payload)),
                                         credit |-> Num(CreditOf(Payload))])

\* a debit of 100 against a credit of 102 was rejected without a request
C1_Witness ==
    /\ IsLedgerCreate /\ StructurallyValid(Payload)
    /\ DebitOf(Payload) = 100 /\ CreditOf(Payload) = 102
    /\ pc = "done" /\ requests = <<>> /\ Has(result.of, "totales")

-----------------------------------------------------------------------------
(* Properties of the fetch-all pagination *)

\* the execution is a fetch-all GET that reached the pagination loop
InFetchAll ==
    /\ op = "_execute_siigo_tool" /\ paginar_todo /\ method = "GET"
    /\ pc = "paging" \/ requests # <<>>

\* the page number of the first request
FirstPage == IntOf(Get(inp.parametros_json.v, "page", Num(1))).n

\* the records carried by a page, plain or wrapped; none for an error
PageRecords(page_data) ==
    IF Has(page_data, "error") THEN <<>>
    ELSE IF Has(page_data, "results") THEN page_data.d["results"].l
    ELSE IF Has(page_data, "data") /\ Has(page_data.d["data"], "results")
    THEN page_data.d["data"].d["results"].l
    ELSE <<>>

\* the pagination metadata of a page, plain or wrapped
PageMeta(page_data) ==
    IF Has(page_data, "results") THEN Get(page_data, "pagination", EmptyDict)
    ELSE Get(page_data.d["data"], "pagination", EmptyDict)

\* the page reports a positive total that `accumulated` records reach
TotalReached(page_data, accumulated) ==
    /\ Has(PageMeta(page_data), "total_results")
    /\ PageMeta(page_data).d["total_results"].n > 0
    /\ accumulated >= PageMeta(page_data).d["total_results"].n

\* the records of the consolidated result
ResultRecords(text) ==
    IF Has(text.of, "data") THEN text.of.d["data"].d["results"].l
    ELSE text.of.d["results"].l

\* C3: during a fetch-all GET, when a page request returns a result with an
\* 'error' key the loop has stopped at that request (one request per page
\* accumulated before, plus the failed one, and the function has returned),
\* and the tool's result is the text of that error alone, without the records
\* accumulated from earlier pages.
C3_ErrorPageStops ==
    (InFetchAll /\ requests # <<>> /\ Has(returned, "error"))
    => /\ pc = "done"
       /\ Len(requests) = iter + 1
       /\ result = Text(returned)
       /\ ~Has(result.of, "results") /\ ~Has(result.of, "data")

\* the third page failed after two pages were accumulated, with a field list
C3_Witness ==
    /\ InFetchAll /\ pc = "done" /\ Has(returned, "error")
    /\ iter = 2 /\ Len(requests) = 3 /\ all_results # <<>>
    /\ Truthy(campos) /\ result = Text(returned)

\* the requests of a fetch-all never exceed 20, and inside the loop one
\* request was issued per iteration and fewer than 20 iterations have run
C4_Bounded ==
    InFetchAll => /\ Len(requests) <= 20
                  /\ pc = "paging" => (Len(requests) = iter /\ iter < 20)

\* every step of the loop ends the function or completes one more iteration
C4_Progress ==
    pc = "paging" => \/ pc' = "done"
                     \/ pc' = "paging" /\ iter' = iter + 1

\* C4: a fetch-all GET issues at most 20 page requests whatever the backend
\* answers (full pages, oversized pages, no total): the request count never
\* exceeds 20 and each step of the loop either returns or uses up one of the
\* 20 iterations.
C4_AtMostTwentyPages == []C4_Bounded /\ [][C4_Progress]_vars

\* a backend that never sent a short page or a total was asked 20 pages
C4_Witness ==
    /\ InFetchAll /\ pc = "done" /\ Len(requests) = 20 /\ iter = 20
    /\ Len(all_results) > 20 /\ IsText(result) /\ Len(ResultRecords(result)) > 20

\* the requests of a fetch-all ask consecutive pages with one page_size; the
\* loop goes on only after a page that was not short and did not reach a
\* positive reported total; the consolidated result holds the accumulated
\* records
C5_Pages ==
    InFetchAll
    => /\ \A k \in 1..Len(requests) :
            /\ requests[k].method = "GET"
            /\ requests[k].params["page"] = Str(ToString(FirstPage + k - 1))
            /\ requests[k].params["page_size"] = Str(ToString(page_size))
       /\ (pc = "paging" /\ iter > 0)
            => /\ Len(PageRecords(returned)) >= page_size
               /\ ~TotalReached(returned, Len(all_results))
       /\ (pc = "done" /\ iter > 0 /\ PageRecords(returned) # <<>> /\ campos = None)
            => /\ IsText(result) /\ ~result.truncated
               /\ ResultRecords(result) = all_results

\* each step of the loop appends the records of the page it fetched
C5_Append ==
    pc = "paging" => all_results' = all_results \o PageRecords(returned')

\* C5: a fetch-all GET requests consecutive page numbers, one per iteration,
\* with the same page_size; the consolidated records are the concatenation of
\* the pages' records in request order; no page is requested after a page
\* with fewer than page_size records or once the accumulated count reaches
\* the reported total.
C5_ConsecutivePages == []C5_Pages /\ [][C5_Append]_vars

\* pages of 2, 2 and 1 records with page_size 2 gave 5 records after exactly
\* 3 requests
C5_Witness ==
    /\ InFetchAll /\ pc = "done" /\ page_size = 2 /\ Len(requests) = 3
    /\ all_results = Recs(1, 2) \o Recs(2, 2) \o Recs(3, 1)
    /\ IsText(result) /\ ResultRecords(result) = all_results

-----------------------------------------------------------------------------
(* Properties of _call_siigo *)

\* a call of _call_siigo has returned
CallDone == op = "_call_siigo" /\ pc = "done"

\* the backend answered the call with a success status and the body {}
AnsweredEmptyObject ==
    /\ inp.resp.k = "http" /\ Ok(inp.resp)
    /\ inp.resp.text = "json" /\ inp.resp.json = EmptyDict

\* C6: a GET 'listar' call of _call_siigo that the backend answers with a
\* success status and the JSON object {} returns a dict with an 'error' key,
\* not the empty object, and its one audit event has success = FALSE.
C6_EmptyListarIsError ==
    (CallDone /\ inp.method = "GET" /\ inp.operacion = "listar" /\ AnsweredEmptyObject)
    => /\ Has(result, "error") /\ result # EmptyDict
       /\ Len(audit) = 1
       /\ audit[1].event.success = FALSE
       /\ audit[1].event.error_text = result.d["error"]

\* a listing answered 200 {} was returned as an error and audited as a failure
C6_Witness ==
    /\ CallDone /\ inp.method = "GET" /\ inp.operacion = "listar"
    /\ AnsweredEmptyObject /\ inp.resp.status = 200
    /\ Has(result, "error") /\ audit[1].event.success = FALSE
    /\ audit[1].outcome = "written"

TimeoutText == "Timeout: La solicitud tardo demasiado"
ConnectionText == "Error de conexion con el servidor de SIIGO"

\* C7: _call_siigo returns a value and raises nothing, whatever the HTTP
\* attempt does (timeout, connection failure, another exception, a body that
\* is not JSON, an unsupported method); after a timeout, a connection failure
\* or another exception the value is a dict whose 'error' text is, for each
\* kind and for no other, the text of that kind.
C7_NeverRaises ==
    CallDone
    => /\ ~IsRaise(result)
       /\ (inp.method \in HttpMethods /\ inp.resp.k = "raises")
            => /\ Has(result, "error") /\ IsStr(result.d["error"])
               /\ (result.d["error"].s = TimeoutText) <=> (inp.resp.exc = "Timeout")
               /\ (result.d["error"].s = ConnectionText)
                     <=> (inp.resp.exc = "ConnectionError")
               /\ (result.d["error"].s = "Error inesperado: " \o inp.resp.exc)
                     <=> (inp.resp.exc \notin {"Timeout", "ConnectionError"})
       /\ (inp.method \notin HttpMethods) => Has(result, "error")
       /\ (inp.method \in HttpMethods /\ inp.resp.k = "http" /\ inp.resp.text = "html")
            => Has(result, "raw_response")

\* an exception that is neither a timeout nor a connection failure was
\* returned as an 'Error inesperado' dict
C7_Witness ==
    /\ CallDone /\ inp.method = "GET" /\ inp.resp = RequestRaises("SSLError")
    /\ result = Dict([error |-> Str("Error inesperado: SSLError")])

\* C8: every call of _call_siigo attempts exactly one audit event, on every
\* exit path, and the value it returns is the value it returns under every
\* behaviour of the audit store (insert succeeds, insert raises, store not
\* ready); inside the tool there is one audit attempt per request.
C8_OneAuditEvent ==
    /\ CallDone
        => /\ Len(audit) = 1
           /\ audit[1].outcome = (CASE store = "not_ready" -> "skipped"
                                    [] store = "ok"        -> "written"
                                    [] OTHER               -> "failed")
           /\ \A s \in DbStates :
                 _call_siigo(inp.endpoint, inp.operacion, inp.method, inp.query_params,
                             inp.body, inp.resp, s).data = result
    /\ op = "_execute_siigo_tool" => Len(audit) = Len(requests)

\* a call that timed out while the audit insert raised made one attempt and
\* returned the timeout error
C8_Witness ==
    /\ CallDone /\ store = "fail" /\ inp.resp = RequestRaises("Timeout")
    /\ Len(audit) = 1 /\ audit[1].outcome = "failed"
    /\ result = Dict([error |-> Str(TimeoutText)])

-----------------------------------------------------------------------------
(* Properties of _to_response_str *)

\* the max_chars of the call that produced the result
BudgetOf == IF op = "_to_response_str" THEN inp.max_chars ELSE max_chars_default

\* C9: the text returned by _to_response_str, by whichever path (as is,
\* trimmed to fewer records, one record kept, hard-truncated), is at most
\* max_chars plus the length of the truncation marker long.
C9_LengthBounded ==
    (pc = "done" /\ op \in {"_to_response_str", "_execute_siigo_tool"} /\ IsText(result))
    => TextLen(result) <= BudgetOf + MarkerLen

\* an envelope too long even with one record was cut at max_chars and the
\* marker appended
C9_Witness ==
    /\ op = "_to_response_str" /\ pc = "done" /\ IsText(result)
    /\ result.truncated /\ inp.max_chars > 0
    /\ Has(result.of, "_nota") /\ Len(result.of.d["results"].l) = 1
    /\ TextLen(result) = inp.max_chars + MarkerLen

-----------------------------------------------------------------------------
(* Properties of _filter_response_fields *)

\* the requested field names
RequestedFields == {inp.campos[i].s : i \in 1..Len(inp.campos)}

\* field f resolves in record r by direct key, dotted path or alias
Resolves(r, f) ==
    \/ f \in DOMAIN r.d
    \/ /\ f \in DOMAIN DottedPaths
       /\ Has(r, DottedPaths[f][1]) /\ Has(r.d[DottedPaths[f][1]], DottedPaths[f][2])
    \/ /\ f = "created_at" /\ Has(r, "metadata") /\ Has(r.d["metadata"], "created")
       /\ r.d["metadata"].d["created"] # Null
    \/ /\ f \in {"updated_at", "last_updated"}
       /\ Has(r, "metadata") /\ Has(r.d["metadata"], "last_updated")
       /\ r.d["metadata"].d["last_updated"] # Null
    \/ /\ f \in {"value", "total"}
       /\ \/ Has(r, "total") /\ IsNumber(r.d["total"])
          \/ Has(r, "payment") /\ Has(r.d["payment"], "value")
                /\ IsNumber(r.d["payment"].d["value"])
          \/ /\ Has(r, "items") /\ IsList(r.d["items"])
             /\ \E i \in 1..Len(r.d["items"].l) :
                   Has(r.d["items"].l[i], "value") /\ IsNumber(r.d["items"].l[i].d["value"])

\* the object records of the input, each with what the call made of it
Projections ==
    IF Has(inp.data, "results") \/ Has(inp.data, "data")
    THEN {<<PageRecords(inp.data)[i], PageRecords(result)[i]>> :
              i \in 1..Len(PageRecords(inp.data))}
    ELSE IF IsDict(inp.data) THEN {<<inp.data, result>>}
    ELSE {}

\* C10: every object record that _filter_response_fields projects onto the
\* field list F has only keys of F; a field of F that resolves by none of
\* direct key, dotted path or alias is absent from the record, one that
\* resolves is present, and no error is raised.
C10_OnlyRequestedFields ==
    (op = "_filter_response_fields" /\ pc = "done")
    => /\ ~IsRaise(result)
       /\ \A pr \in Projections :
            /\ IsDict(pr[2])
            /\ DOMAIN pr[2].d \subseteq RequestedFields
            /\ \A f \in RequestedFields : (f \in DOMAIN pr[2].d) <=> Resolves(pr[1], f)

\* created_at was resolved through metadata.created and phones, which
\* resolves by nothing, was left out
C10_Witness ==
    /\ op = "_filter_response_fields" /\ pc = "done"
    /\ inp.campos = <<Str("created_at"), Str("phones")>>
    /\ Has(inp.data, "metadata") /\ ~Has(inp.data, "created_at")
    /\ result = Dict([created_at |-> Str("2024-01-01")])

RECURSIVE ItemSum(_)
\* the sum of the numeric 'value' of the object items
ItemSum(items) ==
    IF items = <<>> THEN 0
    ELSE (IF Has(Head(items), "value") /\ IsNumber(Head(items).d["value"])
          THEN NumVal(Head(items).d["value"]) ELSE 0)
         + ItemSum(Tail(items))

\* the value of a field that resolves in record r: the top-level key, else
\* the dotted path, else the alias (metadata.created, metadata.last_updated;
\* numeric total, then payment.value, then the sum of the items' values)
ResolvedValue(r, f) ==
    IF f \in DOMAIN r.d THEN r.d[f]
    ELSE IF f \in DOMAIN DottedPaths
    THEN r.d[DottedPaths[f][1]].d[DottedPaths[f][2]]
    ELSE IF f = "created_at" THEN r.d["metadata"].d["created"]
    ELSE IF f \in {"updated_at", "last_updated"} THEN r.d["metadata"].d["last_updated"]
    ELSE IF Has(r, "total") /\ IsNumber(r.d["total"]) THEN r.d["total"]
    ELSE IF Has(r, "payment") /\ Has(r.d["payment"], "value")
            /\ IsNumber(r.d["payment"].d["value"])
    THEN r.d["payment"].d["value"]
    ELSE Flt(ItemSum(r.d["items"].l))

\* the record of Scenario E
ScenarioE ==
    Dict([metadata |-> Dict([created |-> Str("2024-01-01")]),
          items |-> List(<<Dict([value |-> Num(50)]), Dict([value |-> Num(50)])>>)])

\* C11: each field of a projected record carries the value found first in
\* the order top-level key, dotted path, alias table (created_at from
\* metadata.created; total/value from the numeric total, then payment.value,
\* then the sum of the numeric items[].value); the record of Scenario E
\* projects onto created_at, total as "2024-01-01" and 100.0.
C11_ResolutionOrder ==
    (op = "_filter_response_fields" /\ pc = "done")
    => /\ \A pr \in Projections :
            \A f \in RequestedFields \cap DOMAIN pr[2].d :
                pr[2].d[f] = ResolvedValue(pr[1], f)
       /\ (inp.data = ScenarioE /\ inp.campos = <<Str("created_at"), Str("total")>>)
            => result = Dict([created_at |-> Str("2024-01-01"), total |-> Flt(100)])

\* a record with total 500, payment.value 70 and an item of 50 was projected
\* onto value and created_at: value came from total, created_at did not resolve
C11_TotalFirst ==
    /\ op = "_filter_response_fields" /\ pc = "done"
    /\ Has(inp.data, "total") /\ Has(inp.data, "payment") /\ Has(inp.data, "items")
    /\ inp.campos = <<Str("value"), Str("created_at")>>
    /\ result = Dict([value |-> Num(500)])

\* Scenario E was projected
C11_Witness ==
    /\ op = "_filter_response_fields" /\ pc = "done"
    /\ inp.data = ScenarioE /\ inp.campos = <<Str("created_at"), Str("total")>>
    /\ result = Dict([created_at |-> Str("2024-01-01"), total |-> Flt(100)])

-----------------------------------------------------------------------------
(* Properties of the operation router *)

\* a tool invocation is under way or has returned
ToolCalled == op = "_execute_siigo_tool"

\* the operation name the backend implements for the name the caller gave
BackendName(ep, name) ==
    CASE ep = "facturas_venta" /\ name = "tipos_factura_venta"        -> "tipos_factura"
      [] ep = "facturas_compra" /\ name = "tipos_factura_compra"      -> "tipos_facturas"
      [] ep = "cuentas_por_pagar" /\ name = "consultar_por_proveedor" -> "por_proveedor"
      [] ep = "cuentas_por_pagar" /\ name = "consultar_por_fecha"     -> "por_fecha"
      [] OTHER                                                        -> name

\* the classification of a name as it is spelled
MethodOfExactName(name) ==
    CASE name \in {"crear", "crear_lote", "enviar_mail"} -> "POST"
      [] name = "editar"                                 -> "PUT"
      [] name \in {"eliminar", "anular"}                 -> "DELETE"
      [] OTHER                                           -> "GET"

\* the classification of a name whatever the case of its letters
MethodOfName(name) ==
    CASE name \in {"crear", "crear_lote", "enviar_mail", "CREAR"} -> "POST"
      [] name \in {"editar", "EDITAR"}                            -> "PUT"
      [] name \in {"eliminar", "anular"}                          -> "DELETE"
      [] OTHER                                                    -> "GET"

\* C12 as stated: the method is POST for names beginning with 'crear' and
\* for 'enviar_mail', PUT for the exact name 'editar', DELETE for 'eliminar'
\* and 'anular', GET for every other name.
C12_ExactNames ==
    ToolCalled => method = MethodOfExactName(operacion)

\* C12, amended: the method depends on the operation name alone, compared
\* without regard to case ('CREAR' gives POST, 'EDITAR' gives PUT), every
\* name gets a method, and the (method, normalized operation) of a call is a
\* function of its (endpoint, operation) only.
C12_MethodOfName ==
    ToolCalled
    => /\ operacion = BackendName(inp.endpoint, inp.operacion)
       /\ method = MethodOfName(operacion)
       /\ method \in HttpMethods

\* 'EDITAR' was classified as PUT
C12_Witness ==
    /\ ToolCalled /\ inp.operacion = "EDITAR" /\ operacion = "EDITAR" /\ method = "PUT"

\* the call is on a resource keyed by document date, with a JSON object of
\* parameters and no fetch-all
DateKeyedCall ==
    /\ ToolCalled /\ inp.endpoint \in {"facturas_venta", "facturas_compra",
                                       "comprobantes_contables"}
    /\ inp.parametros_json.k = "json" /\ IsDict(inp.parametros_json.v)
    /\ ~Has(inp.parametros_json.v, "_todos") /\ ~Has(inp.parametros_json.v, "_campos")

\* the parameters the caller supplied
Supplied == inp.parametros_json.v.d

\* the created_* / date_* filter pairs
FilterPairs == {<<"created_start", "date_start">>, <<"created_end", "date_end">>}

\* C13 as stated: on a 'listar' of a date-keyed resource, whichever key of a
\* created_* / date_* pair was supplied, both keys of the pair carry the
\* supplied value afterwards.
C13_MirroredBothWays ==
    (DateKeyedCall /\ operacion = "listar")
    => \A pair \in FilterPairs :
          (pair[1] \in DOMAIN Supplied \/ pair[2] \in DOMAIN Supplied)
          => /\ Has(params, pair[1]) /\ Has(params, pair[2])
             /\ pair[2] \notin DOMAIN Supplied
                  => params.d[pair[2]] = Supplied[pair[1]]
             /\ pair[1] \notin DOMAIN Supplied
                  => params.d[pair[1]] = Supplied[pair[2]]

\* C13, amended: on a 'listar' of a date-keyed resource a supplied created_*
\* key is copied into the date_* key when that one was not supplied; a
\* supplied date_* key is not copied into created_*; no supplied key changes
\* value and no other key appears; for other operations the parameters are
\* unchanged.
C13_CreatedMirroredIntoDate ==
    DateKeyedCall
    => /\ \A k \in DOMAIN Supplied : Has(params, k) /\ params.d[k] = Supplied[k]
       /\ operacion = "listar"
            => \A pair \in FilterPairs :
                  /\ (pair[1] \in DOMAIN Supplied /\ pair[2] \notin DOMAIN Supplied)
                       => /\ Has(params, pair[2])
                          /\ params.d[pair[2]] = Supplied[pair[1]]
                  /\ (pair[1] \notin DOMAIN Supplied) => ~Has(params, pair[1])
                  /\ (pair[1] \notin DOMAIN Supplied /\ pair[2] \notin DOMAIN Supplied)
                       => ~Has(params, pair[2])
       /\ operacion # "listar" => params = inp.parametros_json.v

\* a listing of facturas_venta by created_start / created_end was sent with
\* date_start / date_end as well
C13_Witness ==
    /\ DateKeyedCall /\ operacion = "listar" /\ inp.endpoint = "facturas_venta"
    /\ DOMAIN Supplied = {"created_start", "created_end"}
    /\ pc = "done" /\ Len(requests) = 1
    /\ requests[1].params["date_start"] = Supplied["created_start"]
    /\ requests[1].params["date_end"] = Supplied["created_end"]
    /\ requests[1].params["created_start"] = Supplied["created_start"]

-----------------------------------------------------------------------------
(* Properties of the tool boundary *)

\* C14: every invocation of _execute_siigo_tool that has ended has returned
\* a text, whatever the parameters string was (malformed JSON, JSON that is
\* not an object, a fetch-all with a page or page_size that is not a number);
\* no exception leaves the function.
C14_AlwaysText ==
    (ToolCalled /\ pc = "done") => IsText(result)

\* a tool of the tool surface was invoked with a parameters string that is
\* not parsable JSON
UnparsableParameters ==
    /\ op \in {"_execute_siigo_tool", "siigo_catalogos"}
    /\ inp.parametros_json = InvalidJson

\* a request carries the parse-error marker in its query or in its body
CarriesParseError(req) ==
    \/ "_parse_error" \in DOMAIN req.params
    \/ Has(req.json, "_parse_error")

\* C15: a tool invoked with a parameters string that is not parsable JSON
\* issues no request, so the parse-error marker reaches the backend neither
\* as a query parameter nor in a body, and returns a structured error.
C15_UnparsableRejected ==
    UnparsableParameters
    => /\ requests = <<>>
       /\ \A k \in 1..Len(requests) : ~CarriesParseError(requests[k])
       /\ pc = "done" /\ IsText(result) /\ Has(result.of, "error")

\* the part of C15 that concerns the resource tools
C15_ResourceTools ==
    (UnparsableParameters /\ ToolCalled)
    => /\ requests = <<>>
       /\ pc = "done" /\ result = Text(ParseErrorResponse)

\* C16: no PUT request is ever issued to the notas_credito endpoint: every
\* invocation on notas_credito whose operation the router classifies as PUT
\* ('editar' in any case) issues no request.
C16_NoPutToNotasCredito ==
    /\ \A k \in 1..Len(requests) :
          ~(requests[k].endpoint = "notas_credito" /\ requests[k].method = "PUT")
    /\ (ToolCalled /\ inp.endpoint = "notas_credito" /\ method = "PUT")
         => requests = <<>>

\* the part of C16 that concerns the exact name 'editar'
C16_ExactEditar ==
    (ToolCalled /\ inp.endpoint = "notas_credito" /\ inp.operacion = "editar")
    => /\ requests = <<>> /\ pc = "done"
       /\ inp.parametros_json \in {BlankJson, JsonText(Dict([id |-> Str("77"),
                                                          name |-> Str("ACME")]))}
            => result = Text(UnsupportedEditResponse)

-----------------------------------------------------------------------------
(* Properties of the normalization of backend errors *)

\* a call of _call_siigo with a supported method that the backend answered
Answered == CallDone /\ inp.method \in HttpMethods /\ inp.resp.k = "http"

\* the answer's body is JSON with an explicit error field
ExplicitError == inp.resp.text = "json" /\ Has(inp.resp.json, "error")

\* the answer's body is textually empty
EmptyBody == inp.resp.text \in {"empty", "blank"}

\* C17: when the backend's answer has a status outside 2xx, or an explicit
\* error field, or a textually empty body under a success status, the value
\* returned by _call_siigo is a dict with an 'error' key.
C17_ErrorsNormalized ==
    (Answered /\ (inp.resp.status \notin 200..299 \/ ExplicitError \/ EmptyBody))
    => Has(result, "error")

\* the part of C17 that concerns the explicit error field and the empty body
C17_ErrorFieldOrEmptyBody ==
    (Answered /\ (ExplicitError \/ EmptyBody))
    => /\ Has(result, "error")
       /\ audit[1].event.success = FALSE

-----------------------------------------------------------------------------
(* Deleting a conversation. *)

\* a handle or a durable conversation exists for T
Exists(T) == T \in DOMAIN threads \/ T \in conversaciones

\* C18: DELETE /threads/{id} reports the deletion whenever an in-memory handle
\* or a durable conversation existed for the id when it was called, and
\* not-found only when neither existed; and in the state a successful delete
\* leaves, a second delete of the same id reports not-found.
C18_DeleteReportsWhatExisted ==
    [][\A T \in ThreadIds : DeleteThread(T) =>
          /\ (last_delete'.status = 200) <=> Exists(T)
          /\ (last_delete'.status = 200) => (DeleteStatus(T)' = 404)]_vars

\* the part of C18 that the code keeps: with the pool open and the query
\* succeeding, the answer tells whether anything existed
C18_WithWorkingStore ==
    [][\A T \in ThreadIds : (DeleteThread(T) /\ store = "ok") =>
          ((last_delete'.status = 200) <=> Exists(T))]_vars

\* and in every case a second delete right after a successful one is not-found
C18_SecondDeleteNotFound ==
    [][\A T \in ThreadIds : (DeleteThread(T) /\ last_delete'.status = 200) =>
          (DeleteStatus(T)' = 404)]_vars

\* Scenario F with a store that raises: the conversation is durable, no
\* handle is in memory, and the delete that just ran answered not-found
C18_NotFoundYetStored ==
    /\ last_delete # None /\ last_delete.status = 404
    /\ last_delete.thread_id \in conversaciones
    /\ store = "fail" /\ handles = 0

\* the sub-agent handles that the turns of conversation T ran on
UsedBy(T) == {x.handle : x \in {y \in siigo_runs : y.thread_id = T}}

\* C19: after a delete of T, made while the store works, the sub-agent handle
\* that T's turns used is no longer in the sub-agent registry, and neither are
\* T's handle in main.threads and T's rows in conversaciones and mensajes.
C19_DeleteCascades ==
    [][\A T \in ThreadIds : (DeleteThread(T) /\ store = "ok") =>
          /\ UsedBy(T) \cap Held(_siigo_threads') = {}
          /\ T \notin DOMAIN threads'
          /\ T \notin conversaciones' /\ ~HasHistory(T)']_vars

\* the part of C19 that the code keeps: the entries stored under T itself
C19_OwnEntriesRemoved ==
    [][\A T \in ThreadIds : (DeleteThread(T) /\ store = "ok") =>
          /\ T \notin DOMAIN threads' /\ T \notin DOMAIN _siigo_threads'
          /\ T \notin conversaciones' /\ ~HasHistory(T)']_vars

\* a deleted conversation whose sub-agent handle is still registered
C19_HandleSurvives ==
    /\ last_delete # None /\ last_delete.status = 200
    /\ ~Exists(last_delete.thread_id)
    /\ UsedBy(last_delete.thread_id) \cap Held(_siigo_threads) # {}

\* C20: the sub-agent handle used in a turn of conversation T is keyed by T,
\* and the turns of two different conversations never run the sub-agent on
\* the same handle.
C20_IndependentSubAgentState ==
    \A a, b \in siigo_runs :
        /\ a.key = a.thread_id
        /\ (a.thread_id # b.thread_id) => (a.handle # b.handle)

\* every run of the sub-agent is keyed by the default of agent.current_thread_id
C20_KeyedByDefault == \A a \in siigo_runs : a.key = ContextDefault

\* two requests in flight for different conversations, both of which ran the
\* sub-agent on one and the same handle
C20_SharedHandle ==
    /\ turn["r1"].pc = "run" /\ turn["r2"].pc = "run"
    /\ turn["r1"].thread_id # turn["r2"].thread_id
    /\ UsedBy(turn["r1"].thread_id) \cap UsedBy(turn["r2"].thread_id) # {}
    /\ current_thread_id["r1"] = turn["r1"].thread_id
    /\ current_thread_id["r2"] = turn["r2"].thread_id

-----------------------------------------------------------------------------
(* Rehydrating a conversation. *)

\* request r awaits the replay of the history on the handle it created
Replaying(r) == turn[r].pc = "rehydrate"

\* request r awaits the run of the agent on the user's message
RunningUserTurn(r) == turn[r].pc = "run"

\* C21: the history is replayed on a new handle as a leading turn: while the
\* replay on a handle has not completed, no real user turn runs on that
\* handle, also when a second request for the same thread id arrives meanwhile.
C21_ReplayLeads ==
    \A r1, r2 \in Turns :
        (Replaying(r1) /\ RunningUserTurn(r2)) => (turn[r2].thread # turn[r1].thread)

\* the part of C21 that the code keeps: a handle is replayed on by the request
\* that created it and by no other, and that request runs no user turn meanwhile
C21_OneReplayPerHandle ==
    \A r1, r2 \in Turns :
        (Replaying(r1) /\ Replaying(r2) /\ r1 # r2) => (turn[r1].thread # turn[r2].thread)

\* a second request for the same conversation runs its user turn on the
\* handle on which the first request's replay is still in progress
C21_UserTurnDuringReplay ==
    /\ Replaying("r1") /\ RunningUserTurn("r2")
    /\ turn["r1"].thread_id = turn["r2"].thread_id
    /\ turn["r2"].thread = turn["r1"].thread
    /\ threads[turn["r1"].thread_id] = turn["r1"].thread

-----------------------------------------------------------------------------
(* Persisting a turn. *)

UserRow(T) == [thread_id |-> T, role |-> "user"]
AssistantRow(T) == [thread_id |-> T, role |-> "assistant"]

\* this step ends the run of the agent for request r with an answer
RunCompletes(r) ==
    turn[r].pc = "run" /\ turn'[r].pc = "done" /\ turn'[r].status = 200

\* in mensajes every reply directly follows the user's message of its thread
RepliesFollowTheirMessage ==
    \A i \in DOMAIN mensajes :
        mensajes[i].role = "assistant"
        => (i > 1 /\ mensajes[i - 1] = UserRow(mensajes[i].thread_id))

-----------------------------------------------------------------------------
(* Releasing the connections. *)

\* C23: every function of db.py that takes a connection gives it back on
\* every exit path, a raising statement or commit included: whenever no
\* function is inside its try block, no connection is out of the pool.
C23_AllReleased ==
    /\ db_op.pc \in {"idle", "returned"} => db_op.out = 0
    /\ db_op.out <= 1

\* save_message raised at its second statement and has given its connection back
C23_Witness ==
    /\ db_op.fn = "save_message" /\ db_op.pc = "returned"
    /\ db_op.exc = "DatabaseError" /\ db_op.left = 1
    /\ db_op.out = 0

-----------------------------------------------------------------------------
(* Writes to the ledger. *)

\* a POST request to comprobantes_contables was issued by the tool
LedgerPosted ==
    /\ ToolCalled
    /\ \E k \in 1..Len(requests) :
          requests[k].endpoint = "comprobantes_contables" /\ requests[k].method = "POST"

\* C24: no write reaches comprobantes_contables without passing the ledger
\* validator: for every operation name the router classifies as POST on that
\* resource, a POST request is issued only if _validate_comprobante_payload
\* returned null for the request's parameters.
C24_NoUnvalidatedWrite ==
    LedgerPosted => (_validate_comprobante_payload(params) = None)

\* the part of C24 that concerns the exact name 'crear'
C24_ExactCrear ==
    (LedgerPosted /\ inp.operacion = "crear")
    => (_validate_comprobante_payload(params) = None)

\* a payload with no document, date or items, posted under the name 'CREAR'
C24_UnvalidatedPost ==
    /\ LedgerPosted /\ inp.operacion = "CREAR" /\ pc = "done"
    /\ _validate_comprobante_payload(params) # None
    /\ requests[1].json = params

-----------------------------------------------------------------------------
(* Errors of the remote call in the tool's answer. *)

\* the tool has returned, and its last remote call returned an error dict
RemoteCallFailed ==
    /\ ToolCalled /\ pc = "done" /\ requests # <<>>
    /\ Has(returned, "error")

\* the text the tool returned carries the error of the remote call
ErrorInAnswer ==
    /\ IsText(result) /\ Has(result.of, "error")
    /\ result.of.d["error"] = returned.d["error"]

\* C25: whenever a remote call made for a tool returns a result carrying an
\* error indicator, the text the tool returns contains that error, on the
\* single-request path and on the fetch-all path, and also when the caller
\* selected fields (_campos) that do not name 'error'.
C25_ErrorReachesCaller == RemoteCallFailed => ErrorInAnswer

\* the part of C25 that the code keeps: without a field selection, and on the
\* fetch-all path with or without one
C25_UnlessFieldsSelected ==
    (RemoteCallFailed /\ (campos = None \/ paginar_todo)) => ErrorInAnswer

\* a listing with _campos whose request timed out answers the text {}
C25_ErrorFilteredAway ==
    /\ RemoteCallFailed /\ ~paginar_todo /\ campos # None
    /\ returned = Dict([error |-> Str(TimeoutText)])
    /\ result = Text(EmptyDict)

-----------------------------------------------------------------------------
(* The defects the validator reports. *)

\* the payload has a document id, a date and a non-empty list of items
Complete(p) ==
    /\ IsDict(Get(p, "document", Null)) /\ Truthy(Get(p.d["document"], "id", Null))
    /\ Truthy(Get(p, "date", Null))
    /\ IsList(Get(p, "items", Null)) /\ Truthy(p.d["items"])

\* the value of the item is missing, non-numeric or not greater than 0
ValueDefects(idx, item) ==
    LET v == Float(Get(item, "value", Null))
    IN  IF ~v.ok THEN {Defect(idx, ".value invalido")}
        ELSE IF v.n <= 0 THEN {Defect(idx, ".value debe ser mayor a 0")}
        ELSE {}

\* the account of the item is missing, or has no code
AccountDefects(idx, item) ==
    LET account == Get(item, "account", Null)
    IN  IF ~IsDict(account) THEN {Defect(idx, ".account faltante")}
        ELSE IF ~Truthy(Get(account, "code", Null))
        THEN {Defect(idx, ".account.code faltante")}
        ELSE {}

\* the account of the item has a movement that is neither Debit nor Credit
MovementDefects(idx, item) ==
    LET account == Get(item, "account", Null)
    IN  IF IsDict(account) /\ MovementLc(account) \notin {"debit", "credit"}
        THEN {Defect(idx, ".account.movement invalido (usar Debit/Credit)")}
        ELSE {}

\* the defects of item idx
Defects(idx, item) ==
    IF ~IsDict(item) THEN {Defect(idx, " no es objeto")}
    ELSE AccountDefects(idx, item) \cup MovementDefects(idx, item)
         \cup ValueDefects(idx, item)

\* the defects the tool's answer lists
Reported ==
    IF IsText(result) /\ Has(result.of, "detalle") /\ IsList(result.of.d["detalle"])
    THEN {result.of.d["detalle"].l[k] : k \in DOMAIN result.of.d["detalle"].l}
    ELSE {}

\* a ledger creation with a complete payload has been answered
LedgerValidated == IsLedgerCreate /\ Complete(Payload) /\ pc = "done"

\* C26: the validator reports every defect of every item in one result, also
\* when one item has several defects at once: a defect never hides a defect
\* of the same or of a later item.
C26_EveryDefectReported ==
    LedgerValidated =>
        \A idx \in DOMAIN Payload.d["items"].l :
            Defects(idx, Payload.d["items"].l[idx]) \subseteq Reported

\* the part of C26 that the code keeps: every item is examined, and only the
\* movement of an item whose value is defective goes unreported
C26_EveryItemExamined ==
    LedgerValidated =>
        \A idx \in DOMAIN Payload.d["items"].l :
            LET item == Payload.d["items"].l[idx]
            IN  /\ Defects(idx, item) # {} => Defects(idx, item) \cap Reported # {}
                /\ (~IsDict(item) \/ ValueDefects(idx, item) = {})
                      => Defects(idx, item) \subseteq Reported
                /\ IsDict(item) =>
                      (AccountDefects(idx, item) \cup ValueDefects(idx, item))
                          \subseteq Reported

\* an item without movement and with value 0: only the value is reported
C26_MovementHidden ==
    /\ LedgerValidated
    /\ Payload.d["items"].l = <<Dict([account |-> Dict([code |-> Str("110505")]),
                                      value |-> Num(0)])>>
    /\ Reported = {Defect(1, ".value debe ser mayor a 0")}
    /\ requests = <<>>

-----------------------------------------------------------------------------
(* Trimming an envelope to the budget. *)

\* _to_response_str has answered for a {results, pagination} envelope whose
\* serialization exceeds the budget
OverBudgetEnvelope ==
    /\ op = "_to_response_str" /\ pc = "done"
    /\ Has(inp.data, "results") /\ IsList(inp.data.d["results"])
    /\ Has(inp.data, "pagination") /\ IsDict(inp.data.d["pagination"])
    /\ JsonLen(inp.data) > inp.max_chars

\* the envelope of the first n records with its annotation fits the budget
PrefixFits(n) ==
    LET pagination == inp.data.d["pagination"]
        orig == inp.data.d["results"].l
        total == Get(pagination, "total_results", Num(Len(orig)))
    IN  JsonLen(TestEnvelope(pagination, SubSeq(orig, 1, n), Nota(n, total)))
            <= inp.max_chars

\* the output keeps a prefix of the records, the pagination as it was, and an
\* annotation that counts the records kept; the prefix is the longest that
\* fits, or one record when not even one fits
TrimmedToPrefix ==
    /\ IsText(result)
    /\ Has(result.of, "results") /\ Has(result.of, "pagination") /\ Has(result.of, "_nota")
    /\ LET orig == inp.data.d["results"].l
           kept == result.of.d["results"].l
       IN  /\ Len(kept) <= Len(orig) /\ kept = SubSeq(orig, 1, Len(kept))
           /\ result.of.d["pagination"] = inp.data.d["pagination"]
           /\ result.of.d["_nota"].k = Len(kept)
           /\ Len(orig) >= 1 => Len(kept) >= 1
           /\ \A n \in (Len(kept) + 1)..Len(orig) : ~PrefixFits(n)
           /\ Len(kept) > 1 => PrefixFits(Len(kept))

C27_WhenNotEmpty ==
    (OverBudgetEnvelope /\ inp.data.d["results"].l # <<>>) => TrimmedToPrefix

\* an envelope without records that exceeds the budget is annotated
\* 'Mostrando 1 de ...'
C27_OneOfNone ==
    /\ OverBudgetEnvelope /\ inp.data.d["results"].l = <<>>
    /\ IsText(result) /\ result.of.d["results"].l = <<>>
    /\ result.of.d["_nota"] = NotaUno(Num(120))

-----------------------------------------------------------------------------
(* Trimming a wrapped envelope. *)

\* _to_response_str has answered for {success, data: {results, pagination}}
\* where the wrapped and the bare envelope both exceed the budget
OverBudgetWrapped ==
    /\ op = "_to_response_str" /\ pc = "done"
    /\ Has(inp.data, "data") /\ ~Has(inp.data, "results")
    /\ Has(inp.data.d["data"], "results") /\ IsList(inp.data.d["data"].d["results"])
    /\ Has(inp.data.d["data"], "pagination")
    /\ JsonLen(inp.data) > inp.max_chars
    /\ JsonLen(inp.data.d["data"]) > inp.max_chars

\* the envelope inside a serialized value: the value itself, or its 'data'
EnvelopeOf(v) == IF Has(v, "results") THEN v ELSE v.d["data"]

\* what _to_response_str answers for the same list in the bare shape
BareAnswer == _to_response_str(inp.data.d["data"], inp.max_chars)

\* C28: an over-budget paged list wrapped as {success, data: {results,
\* pagination}} is reduced record by record like the same list in the bare
\* shape: the same number of whole records is retained and the annotation is
\* present, and the text is cut only where the bare one is.
C28_ShapeAgnostic ==
    OverBudgetWrapped =>
        /\ IsText(result)
        /\ Has(EnvelopeOf(result.of), "_nota")
        /\ Len(EnvelopeOf(result.of).d["results"].l)
             = Len(EnvelopeOf(BareAnswer.of).d["results"].l)
        /\ result.truncated => BareAnswer.truncated

\* what the code does with an over-budget wrapped envelope: it cuts the text
\* of the whole value at max_chars
C28_WrappedIsCut ==
    OverBudgetWrapped => result = Truncated(inp.data, inp.max_chars)

\* three records of which the bare shape keeps two whole ones, annotated,
\* while the wrapped text is cut
C28_CutNotTrimmed ==
    /\ OverBudgetWrapped
    /\ Len(inp.data.d["data"].d["results"].l) = 3
    /\ ~BareAnswer.truncated /\ Len(BareAnswer.of.d["results"].l) = 2
    /\ result.truncated /\ ~Has(result.of.d["data"], "_nota")

-----------------------------------------------------------------------------
(* The envelope shape of a consolidated fetch-all. *)

\* an iteration of the pagination loop that accumulated the records of a page
PageAccumulated == pc = "paging" /\ iter' = iter + 1

\* the accumulated page came in the shape {success, data: {results, pagination}}
PageWrapped == _extract_results_payload(returned').wrapped

\* the loop ends with this iteration and the fetch-all answers the
\* consolidated result
Consolidates == PageAccumulated /\ pc' = "done"

\* C29: the consolidated result of a fetch-all has the envelope shape of the
\* first page: the first page decides the shape, no later page changes it,
\* and the answer is the consolidated list in that shape.
C29_ShapeOfFirstPage ==
    [][/\ PageAccumulated =>
            wrapped_mode' = (IF iter = 0 THEN PageWrapped ELSE wrapped_mode)
       /\ Consolidates =>
            result' = Finish(Consolidated(all_results',
                                          IF iter = 0 THEN PageWrapped ELSE wrapped_mode),
                             campos)]_vars

\* what the code does: the shape is wrapped as soon as one page, the first or
\* a later one, was wrapped, and wrapped it stays
C29_WrappedIfAnyPageWas ==
    [][/\ PageAccumulated => wrapped_mode' = (wrapped_mode \/ PageWrapped)
       /\ Consolidates =>
            result' = Finish(Consolidated(all_results', wrapped_mode \/ PageWrapped),
                             campos)]_vars

\* a fetch-all of two pages or more has answered a wrapped result
C29_WrappedAfterSeveralPages ==
    /\ pc = "done" /\ iter >= 2 /\ wrapped_mode
    /\ IsText(result) /\ Has(result.of, "success")

-----------------------------------------------------------------------------
(* A deleted thread and the turns in flight. *)

\* no handle in main.threads, no sub-agent handle under T, no conversation
\* row and no message row of T
Absent(T) ==
    /\ T \notin DOMAIN threads
    /\ T \notin DOMAIN _siigo_threads
    /\ T \notin conversaciones
    /\ \A i \in 1..Len(mensajes) : mensajes[i].thread_id # T

\* a chat request for T arrives in this step
ChatArrives(T) ==
    \E r \in Turns : turn[r].pc = "idle" /\ turn'[r].pc # "idle" /\ turn'[r].thread_id = T

\* the last DELETE the service has answered was for T
LastDeleted(T) == last_delete # None /\ last_delete.thread_id = T

\* a turn for T is awaiting the model
InFlight(T) == \E r \in Turns : turn[r].pc = "run" /\ turn[r].thread_id = T

\* C30: once DELETE /threads/T has completed and left T Absent, T stays
\* Absent until a new chat request for it arrives, also when a turn for T
\* was in flight at the moment of the delete and finishes afterwards.
C30_AbsentUntilNewChat ==
    [][\A T \in ThreadIds :
          (LastDeleted(T) /\ Absent(T) /\ ~ChatArrives(T)) => Absent(T)']_vars

\* the part the code keeps: the handle of a deleted thread comes back only
\* with a new chat request, and without a turn in flight nothing of T does
C30_AbsentUnlessInFlight ==
    [][\A T \in ThreadIds :
          (LastDeleted(T) /\ Absent(T) /\ ~ChatArrives(T)) =>
              /\ T \notin DOMAIN threads'
              /\ ~InFlight(T) => Absent(T)']_vars

\* T was deleted, its handle is gone, and the turn that was in flight has
\* answered 200 and left its rows in the store
C30_RowsOfDeletedThread ==
    \E T \in ThreadIds, r \in Turns :
        /\ last_delete = [thread_id |-> T, status |-> 200]
        /\ T \notin DOMAIN threads /\ T \in conversaciones
        /\ turn[r] = [pc |-> "done", thread_id |-> T, thread |-> turn[r].thread,
                      status |-> 200]
        /\ mensajes = TurnRows(T)

====
